---------------------------- MODULE Spec2Model ----------------------------
(***************************************************************************)
(* A model of two subsystems of the tree:                                  *)
(*                                                                         *)
(*   - the streaming look-ahead reader of                                  *)
(*     src/backend/storage/aio/streaming_read.c (StreamSpec), and           *)
(*   - the AIO handle life cycle of src/backend/storage/aio/aio.c          *)
(*     (AioSpec, and AioFairSpec for liveness).                            *)
(*                                                                         *)
(* The AIO handles live in shared memory and are worked on by several      *)
(* processes: each shared-memory access of a function is one step of the   *)
(* process executing it, in program order (the code's barriers keep that   *)
(* order visible to the other processes).                                  *)
(*                                                                         *)
(* The reader is sequential code driven by two collaborators whose answers *)
(* it cannot predict: the client callback (which block comes next) and the *)
(* buffer manager's StartReadBuffers (how many blocks it pinned, and       *)
(* whether a wait is needed).  Each public function is one action; the     *)
(* answers of the collaborators are chosen inside the action, so the       *)
(* operators that translate the C functions return the SET of states the   *)
(* function can end in.                                                    *)
(***************************************************************************)
EXTENDS Integers, Sequences, FiniteSets, TLC

VARIABLES
  stream,       \* the StreamingRead object and what its collaborators saw
  twin,         \* a second StreamingRead object read through the ring only
  io_method,    \* the configured I/O method (pgaio_impl)
  io_handles,   \* aio_ctl->io_handles[]
  my_aio,       \* each backend's PgAioPerBackend
  proc,         \* where each process is in the AIO call it is executing
  refs,         \* the PgAioHandleRefs the owners have published
  io_log        \* per I/O: the caller's PgAioReturn, and what happened to it

aio_vars == << io_method, io_handles, my_aio, proc, refs, io_log >>
vars == << stream, twin, io_method, io_handles, my_aio, proc, refs, io_log >>

\* ------------------------------------------------------------------------
\* Bounds of the model
\* ------------------------------------------------------------------------

\* Block numbers the callback chooses from are 0..MaxBlock.
MaxBlock == 1
\* The callback returns at most MaxCalls block numbers, then the sentinel.
MaxCalls == 3
\* The consumer calls next() at most MaxExtraNext times more than it takes
\* to drain a stream of MaxCalls blocks.
MaxExtraNext == 1

\* The configurations a stream is begun with: the I/O concurrency setting
\* max_ios is read from, the number of pins the pin limiter leaves, and
\* buffer_io_size.
IoConcurrencySettings == {0, 1, 2}
PinLimits == {1, 2, 3, 4}
BufferIoSizes == {1, 2, 3}

\* ------------------------------------------------------------------------
\* Values of the collaborators' types
\* ------------------------------------------------------------------------

InvalidBlockNumber == -1
InvalidBuffer == 0
READ_BUFFERS_ISSUE_ADVICE == 1

Blocks == 0..MaxBlock

\* The buffer the buffer manager pins for a block: one buffer per block,
\* never InvalidBuffer.
BufferOf(blocknum) == blocknum + 1

\* A word of palloc'ed memory that was never written.
Uninit == -99

Min(a, b) == IF a < b THEN a ELSE b

\* ------------------------------------------------------------------------
\* streaming_read.c
\* ------------------------------------------------------------------------

\* The process has stopped: an Assert failed in an assert-enabled build
\* (trap), or the code accessed memory outside an allocation (ub).
Halted(w) == w.trap # "" \/ w.ub # ""

Trap(w, name) == [w EXCEPT !.trap = name]
Undefined(w, name) == [w EXCEPT !.ub = name]

\* Number of elements allocated for buffers[] and per_buffer_data[].
BuffersSize(w) == w.max_pinned_buffers + w.buffer_io_size - 1

\* streaming_read_buffer_begin: the stream as constructed.  flags is a
\* subset of {"SEQUENTIAL", "FULL"}; io_concurrency is the setting max_ios is
\* read from; pin_limit is what LimitAdditionalPins leaves; advice_supported
\* is USE_PREFETCH without direct I/O.
streaming_read_buffer_begin(flags, io_concurrency, pin_limit, io_size, advice_supported, per_buffer_data_size, assert_enabled) ==
  LET max_ios0 == io_concurrency
      max_pinned_buffers == Min(IF max_ios0 * 4 > io_size THEN max_ios0 * 4 ELSE io_size, pin_limit)
      advice_enabled == advice_supported /\ "SEQUENTIAL" \notin flags
                          /\ max_ios0 > 0
      max_ios == IF max_ios0 = 0 THEN 1 ELSE max_ios0
  IN  [ \* struct StreamingRead
        max_ios |-> max_ios,
        ios_in_progress |-> 0,
        max_pinned_buffers |-> max_pinned_buffers,
        pinned_buffers |-> 0,
        distance |-> IF "FULL" \in flags THEN io_size ELSE 1,
        advice_enabled |-> advice_enabled,
        have_unget_blocknum |-> FALSE,
        unget_blocknum |-> 0,
        seq_blocknum |-> 0,
        pending_read_blocknum |-> 0,
        pending_read_nblocks |-> 0,
        next_io_index |-> 0,
        oldest_buffer_index |-> 0,
        next_buffer_index |-> 0,
        buffers |-> [i \in 0..(max_pinned_buffers + io_size - 2) |-> Uninit],
        per_buffer_data_size |-> per_buffer_data_size,
        buffer_io_indexes |-> [i \in 0..(max_pinned_buffers - 1) |-> -1],
        ios |-> [i \in 0..(max_ios - 1) |->
                   [flags |-> 0, buffers |-> -1, started |-> FALSE]],
        \* the build, the GUC and the flags the stream was begun with
        buffer_io_size |-> io_size,
        flags |-> flags,
        assert_enabled |-> assert_enabled,
        trap |-> "",
        ub |-> "",
        \* what the collaborators have seen so far
        cb_blocks |-> << >>,      \* block numbers the callback returned
        cb_slots |-> << >>,       \* per-buffer-data slot passed on each
        cb_done |-> FALSE,        \* the callback returned the sentinel
        cb_after_done |-> FALSE,  \* ... and was invoked again
        returned |-> << >>,       \* buffers next() returned to the consumer
        ret_slots |-> << >>,      \* per-buffer-data slot returned with each
        result |-> "none",        \* the last call's return value
        eos_at |-> -1,            \* Len(returned) at the first InvalidBuffer
        calls |-> 0,              \* calls of next() by the consumer
        pinned |-> << >>,         \* buffers pinned by StartReadBuffer(s)
        reads |-> << >>,          \* the StartReadBuffer(s) calls, see ReadCall
        released |-> << >>,       \* buffers released by end()
        waits_needed |-> 0,       \* StartReadBuffer(s) calls with need_wait
        waits_done |-> 0,         \* WaitReadBuffers calls
        served |-> [io |-> "", before |-> 0, after |-> 0],
                                  \* the buffer returned last: see Served
        ended |-> "no" ]

\* streaming_read_get_block that asks the callback even when a block is in
\* the unget slot.
streaming_read_get_block_callback(w, slot) ==
  LET x == [w EXCEPT !.have_unget_blocknum = FALSE]
  IN  IF x.cb_done
      THEN { << [x EXCEPT !.cb_after_done = TRUE], InvalidBlockNumber >> }
      ELSE { << [x EXCEPT !.cb_done = TRUE], InvalidBlockNumber >> }
           \cup
           (IF Len(x.cb_blocks) < MaxCalls
            THEN { << [x EXCEPT !.cb_blocks = Append(@, b),
                                !.cb_slots = Append(@, slot)], b >>
                   : b \in Blocks }
            ELSE {})

\* streaming_read_get_block: the set of <<state, blocknum>> it can end in.
\* slot is the index of the per-buffer-data element passed (-1: NULL).
streaming_read_get_block(w, slot) ==
  IF ~w.have_unget_blocknum
  THEN IF w.cb_done
       THEN { << [w EXCEPT !.cb_after_done = TRUE], InvalidBlockNumber >> }
       ELSE { << [w EXCEPT !.cb_done = TRUE], InvalidBlockNumber >> }
            \cup
            (IF Len(w.cb_blocks) < MaxCalls
             THEN { << [w EXCEPT !.cb_blocks = Append(@, b),
                                 !.cb_slots = Append(@, slot)], b >>
                    : b \in Blocks }
             ELSE {})
  ELSE { << [w EXCEPT !.have_unget_blocknum = FALSE], w.unget_blocknum >> }

\* streaming_read_unget_block
streaming_read_unget_block(w, blocknum) ==
  IF w.assert_enabled /\ w.have_unget_blocknum
  THEN Trap(w, "unget: !have_unget_blocknum")
  ELSE [w EXCEPT !.have_unget_blocknum = TRUE, !.unget_blocknum = blocknum]

\* The fields of the stream that a read can change, apart from the queue of
\* buffers.
IoFields(w) ==
  [ distance |-> w.distance, ios_in_progress |-> w.ios_in_progress,
    next_io_index |-> w.next_io_index, buffer_io_indexes |-> w.buffer_io_indexes ]

\* A call of StartReadBuffers or StartReadBuffer as recorded in reads: the
\* block number and the number of blocks it was asked for, the number of
\* blocks it pinned, the flags passed and the need_wait returned, the
\* distance, pinned_buffers, seq_blocknum and queue indexes of the stream w
\* when it was called, whether it was called on the fast path, and IoFields when
\* streaming_read_start_pending_read or the fast path began (before) and
\* when it ended in x (after).
ReadCall(w, x, blocknum, nblocks, done, flags, need_wait, fast) ==
  [ blocknum |-> blocknum, nblocks |-> nblocks, done |-> done,
    distance |-> w.distance, pinned_buffers |-> w.pinned_buffers,
    flags |-> flags, need_wait |-> need_wait,
    seq_blocknum |-> w.seq_blocknum, fast |-> fast,
    oldest_buffer_index |-> w.oldest_buffer_index,
    next_buffer_index |-> w.next_buffer_index,
    max_pinned_buffers |-> w.max_pinned_buffers,
    before |-> IoFields(w), after |-> IoFields(x) ]

\* The stream x after a read, with the read recorded.
Logged(w, x, blocknum, nblocks, done, flags, need_wait, fast) ==
  [x EXCEPT !.reads = Append(@, ReadCall(w, x, blocknum, nblocks, done,
                                         flags, need_wait, fast))]

\* The distance after a read that needed no wait if it did not decay.
DistanceAfterHitKept(w) == w.distance

\* The look-ahead distance after starting a read that needs no wait: it
\* decays (behavior A).
DistanceAfterHit(w) == IF w.distance > 1 THEN w.distance - 1 ELSE w.distance

\* What StartReadBuffers may answer when asked for nblocks blocks: it pins
\* the first n of them, 1 <= n <= nblocks, and says whether a wait is needed.
StartReadBuffersAnswers(nblocks) ==
  { [nblocks |-> n, need_wait |-> nw] : n \in 1..nblocks, nw \in BOOLEAN }

\* The body of streaming_read_start_pending_read once StartReadBuffers has
\* answered a.
StartPendingReadWith(w, a) ==
  LET buffer_index == w.next_buffer_index
      io_index == w.next_io_index
      nblocks == a.nblocks
      flags == IF w.advice_enabled /\ w.pending_read_blocknum # w.seq_blocknum
               THEN READ_BUFFERS_ISSUE_ADVICE ELSE 0
      \* StartReadBuffers fills the operation and pins nblocks buffers
      ios1 == [w.ios EXCEPT ![io_index] =
                 [flags |-> flags, buffers |-> buffer_index, started |-> TRUE]]
      buffers1 == [i \in DOMAIN w.buffers |->
                     IF i >= buffer_index /\ i < buffer_index + nblocks
                     THEN BufferOf(w.pending_read_blocknum + (i - buffer_index))
                     ELSE w.buffers[i]]
      pinned1 == w.pinned \o
                   [i \in 1..nblocks |-> BufferOf(w.pending_read_blocknum + i - 1)]
      overflow == (buffer_index + nblocks) - w.max_pinned_buffers
      buffers2 == IF overflow > 0
                  THEN [i \in DOMAIN buffers1 |->
                          IF i < overflow
                          THEN buffers1[w.max_pinned_buffers + i]
                          ELSE buffers1[i]]
                  ELSE buffers1
      next_index0 == buffer_index + nblocks
      next_index == IF next_index0 >= w.max_pinned_buffers
                    THEN next_index0 - w.max_pinned_buffers ELSE next_index0
      w1 == [w EXCEPT !.ios = ios1,
                      !.buffers = buffers2,
                      !.pinned = pinned1,
                      !.pinned_buffers = @ + nblocks,
                      !.seq_blocknum = w.pending_read_blocknum + nblocks,
                      !.next_buffer_index = next_index,
                      !.pending_read_blocknum = @ + nblocks,
                      !.pending_read_nblocks = @ - nblocks]
  IN  IF ~a.need_wait
      THEN IF w.assert_enabled /\ w.buffer_io_indexes[buffer_index] # -1
           THEN Trap(w, "start_pending_read: buffer_io_indexes[buffer_index] == -1")
           ELSE IF w.assert_enabled /\ ~(next_index >= 0 /\ next_index < w.max_pinned_buffers)
           THEN Trap(w, "start_pending_read: buffer_index < max_pinned_buffers")
           ELSE Logged(w, [w1 EXCEPT !.distance = DistanceAfterHit(w)],
                       w.pending_read_blocknum, w.pending_read_nblocks, nblocks,
                       flags, FALSE, FALSE)
      ELSE IF w.assert_enabled /\ ~(w.ios_in_progress < w.max_ios)
           THEN Trap(w, "start_pending_read: ios_in_progress < max_ios")
           ELSE IF w.assert_enabled /\ ~(next_index >= 0 /\ next_index < w.max_pinned_buffers)
           THEN Trap(w, "start_pending_read: buffer_index < max_pinned_buffers")
           ELSE Logged(w, [w1 EXCEPT !.buffer_io_indexes[buffer_index] = io_index,
                                     !.next_io_index =
                                        IF @ + 1 = w.max_ios THEN 0 ELSE @ + 1,
                                     !.ios_in_progress = @ + 1,
                                     !.waits_needed = @ + 1],
                       w.pending_read_blocknum, w.pending_read_nblocks, nblocks,
                       flags, TRUE, FALSE)

\* streaming_read_start_pending_read: the set of states it can end in.
streaming_read_start_pending_read(w) ==
  IF Halted(w) THEN {w}
  ELSE IF w.assert_enabled /\ ~(w.pending_read_nblocks > 0)
  THEN {Trap(w, "start_pending_read: pending_read_nblocks > 0")}
  ELSE IF w.assert_enabled /\ ~(w.pending_read_nblocks <= w.buffer_io_size)
  THEN {Trap(w, "start_pending_read: pending_read_nblocks <= buffer_io_size")}
  ELSE IF w.assert_enabled
          /\ ~(w.pinned_buffers + w.pending_read_nblocks <= w.max_pinned_buffers)
  THEN {Trap(w, "start_pending_read: pin limit")}
  ELSE IF w.assert_enabled
          /\ ~(IF w.pinned_buffers > 0
               THEN w.next_buffer_index # w.oldest_buffer_index
               ELSE w.next_buffer_index = w.oldest_buffer_index)
  THEN {Trap(w, "start_pending_read: overwriting a pinned buffer")}
  ELSE IF w.next_io_index \notin DOMAIN w.ios
  THEN {Undefined(w, "ios[next_io_index] is outside ios[]")}
  ELSE IF w.pending_read_nblocks < 1
  THEN {Undefined(w, "StartReadBuffers asked for no block")}
  ELSE IF w.next_buffer_index \notin DOMAIN w.buffer_io_indexes
          \/ w.next_buffer_index + w.pending_read_nblocks > BuffersSize(w)
  THEN {Undefined(w, "the read does not fit buffers[]")}
  ELSE { StartPendingReadWith(w, a)
         : a \in StartReadBuffersAnswers(w.pending_read_nblocks) }

\* "Can we merge it with the pending read?"
ExtendsPendingReadAlways(w, blocknum) == w.pending_read_nblocks > 0
ExtendsPendingRead(w, blocknum) ==
  /\ w.pending_read_nblocks > 0
  /\ w.pending_read_blocknum + w.pending_read_nblocks = blocknum

\* The loop of streaming_read_look_ahead: the set of [w, tail] it can leave
\* with; tail is FALSE when the function returned from inside the loop.
RECURSIVE LookAheadLoop(_)
LookAheadLoop(w) ==
  IF Halted(w) THEN { [w |-> w, tail |-> FALSE] }
  ELSE IF ~(w.ios_in_progress < w.max_ios
            /\ w.pinned_buffers + w.pending_read_nblocks < w.distance)
  THEN { [w |-> w, tail |-> TRUE] }
  ELSE IF w.pending_read_nblocks = w.buffer_io_size
  THEN UNION { LookAheadLoop(x) : x \in streaming_read_start_pending_read(w) }
  ELSE
    LET buffer_index0 == w.next_buffer_index + w.pending_read_nblocks
        buffer_index == IF buffer_index0 > w.max_pinned_buffers
                        THEN buffer_index0 - w.max_pinned_buffers
                        ELSE buffer_index0
        slot == IF w.per_buffer_data_size > 0 THEN buffer_index ELSE -1
        AfterGet(g) ==
          LET x == g[1]
              blocknum == g[2]
          IN  IF blocknum = InvalidBlockNumber
              THEN { [w |-> [x EXCEPT !.distance = 0], tail |-> TRUE] }
              ELSE IF ExtendsPendingRead(x, blocknum)
              THEN LookAheadLoop([x EXCEPT !.pending_read_nblocks = @ + 1])
              ELSE IF x.pending_read_nblocks > 0
              THEN UNION {
                     IF Halted(y) THEN { [w |-> y, tail |-> FALSE] }
                     ELSE IF y.ios_in_progress = y.max_ios
                     THEN { [w |-> streaming_read_unget_block(y, blocknum),
                             tail |-> FALSE] }
                     ELSE LookAheadLoop([y EXCEPT !.pending_read_blocknum = blocknum,
                                                  !.pending_read_nblocks = 1])
                     : y \in streaming_read_start_pending_read(x) }
              ELSE LookAheadLoop([x EXCEPT !.pending_read_blocknum = blocknum,
                                           !.pending_read_nblocks = 1])
    IN  IF w.per_buffer_data_size > 0 /\ ~w.have_unget_blocknum
           /\ buffer_index >= BuffersSize(w)
        THEN { [w |-> Undefined(w, "the callback's slot is outside per_buffer_data[]"),
                tail |-> FALSE] }
        ELSE UNION { AfterGet(g) : g \in streaming_read_get_block(w, slot) }

\* streaming_read_look_ahead: the set of states it can end in.
streaming_read_look_ahead(w) ==
  UNION { IF r.tail /\ ~Halted(r.w)
             /\ r.w.pending_read_nblocks > 0
             /\ (r.w.distance = r.w.pending_read_nblocks \/ r.w.distance = 0)
             /\ r.w.ios_in_progress < r.w.max_ios
          THEN streaming_read_start_pending_read(r.w)
          ELSE { r.w }
          : r \in LookAheadLoop(w) }

\* The values a read of buffers[i] can give: what was stored there, or
\* anything when the element was never written.
BufferRead(w, i) ==
  IF w.buffers[i] = Uninit
  THEN {InvalidBuffer} \cup { BufferOf(b) : b \in Blocks }
  ELSE { w.buffers[i] }

\* A return of streaming_read_buffer_next: the state it leaves, the buffer
\* returned and the per-buffer-data slot stored through the out parameter
\* (-1: none).
Return(w, buffer, slot) == [w |-> w, buffer |-> buffer, slot |-> slot]

\* The stream w with the buffer it is returning recorded: io says what the
\* buffer's slot recorded ("advice": an I/O in progress issued with advice,
\* "no advice": an I/O in progress issued without, "none": no I/O, "fast":
\* the buffer is returned on the fast path), before and after are the
\* distance before and after "Do we have to wait for an associated I/O
\* first?".
Served(w, io, before, after) ==
  [w EXCEPT !.served = [io |-> io, before |-> before, after |-> after]]

\* The fast path of streaming_read_buffer_next (all-cached scans).
NextFastPath(w) ==
  LET oldest_buffer_index == w.oldest_buffer_index
      AfterGet(buffer, g) ==
        LET x == Served(g[1], "fast", w.distance, w.distance)
            next_blocknum == g[2]
            flags == IF x.advice_enabled THEN READ_BUFFERS_ISSUE_ADVICE ELSE 0
            \* StartReadBuffer(&ios[0], &buffers[oldest_buffer_index], ...)
            y == [x EXCEPT !.ios[0] = [flags |-> flags,
                                       buffers |-> oldest_buffer_index,
                                       started |-> TRUE],
                           !.buffers[oldest_buffer_index] = BufferOf(next_blocknum),
                           !.pinned = Append(@, BufferOf(next_blocknum))]
            z == [y EXCEPT !.buffer_io_indexes[oldest_buffer_index] = 0,
                           !.ios_in_progress = 1,
                           !.next_io_index = 1,
                           !.seq_blocknum = next_blocknum + 1,
                           !.distance = Min(2, x.max_pinned_buffers),
                           !.waits_needed = @ + 1]
        IN  IF next_blocknum = InvalidBlockNumber
            THEN { Return([x EXCEPT !.distance = -1, !.pinned_buffers = 0],
                          buffer, -1) }
            ELSE { Return(Logged(w, y, next_blocknum, 1, 1, flags, FALSE, TRUE),
                          buffer, -1),
                   Return(Logged(w, z, next_blocknum, 1, 1, flags, TRUE, TRUE),
                          buffer, -1) }
  IN  UNION { AfterGet(buffer, g)
              : buffer \in BufferRead(w, oldest_buffer_index),
                g \in streaming_read_get_block(w, -1) }

\* The distance after waiting if every I/O ramped it up as one issued with
\* advice does.
DistanceAfterWaitRamping(w, io_flags) ==
  Min(w.distance * 2, w.max_pinned_buffers)

\* The look-ahead distance after waiting for an I/O issued with io_flags.
DistanceAfterWait(w, io_flags) ==
  IF io_flags = READ_BUFFERS_ISSUE_ADVICE
  THEN Min(w.distance * 2, w.max_pinned_buffers)
  ELSE IF w.distance > w.buffer_io_size
  THEN w.distance - 1
  ELSE Min(Min(w.distance * 2, w.buffer_io_size), w.max_pinned_buffers)

\* streaming_read_buffer_next from "Grab the oldest pinned buffer" on.
NextGrabOldest(w, want_data) ==
  LET oldest_buffer_index == w.oldest_buffer_index
      slot == IF want_data THEN oldest_buffer_index ELSE -1
      io_index == w.buffer_io_indexes[oldest_buffer_index]
      must_wait == w.ios_in_progress > 0 /\ io_index >= 0
      w1 == IF must_wait
            THEN Served([w EXCEPT !.waits_done = @ + 1,
                                  !.buffer_io_indexes[oldest_buffer_index] = -1,
                                  !.ios_in_progress = @ - 1,
                                  !.distance =
                                     DistanceAfterWait(w, w.ios[io_index].flags)],
                        IF w.ios[io_index].flags = READ_BUFFERS_ISSUE_ADVICE
                        THEN "advice" ELSE "no advice",
                        w.distance,
                        DistanceAfterWait(w, w.ios[io_index].flags))
            ELSE Served(w, "none", w.distance, w.distance)
      w2 == [w1 EXCEPT !.buffers[oldest_buffer_index] =
                          IF w.assert_enabled THEN InvalidBuffer ELSE @,
                       !.pinned_buffers = @ - 1,
                       !.oldest_buffer_index =
                          IF @ + 1 = w.max_pinned_buffers THEN 0 ELSE @ + 1]
      Grab(buffer) ==
        IF w.assert_enabled /\ buffer = InvalidBuffer
        THEN { Return(Trap(w, "next: BufferIsValid(buffer)"), InvalidBuffer, -1) }
        ELSE IF must_wait /\ io_index \notin DOMAIN w.ios
        THEN { Return(Undefined(w, "ios[io_index] is outside ios[]"),
                      InvalidBuffer, -1) }
        ELSE IF must_wait /\ w.assert_enabled
                /\ w.ios[io_index].buffers # oldest_buffer_index
        THEN { Return(Trap(w, "next: ios[io_index].buffers == &buffers[oldest_buffer_index]"),
                      InvalidBuffer, -1) }
        ELSE { Return(x, buffer, slot) : x \in streaming_read_look_ahead(w2) }
  IN  IF w.assert_enabled /\ ~(w.pinned_buffers > 0)
      THEN { Return(Trap(w, "next: pinned_buffers > 0"), InvalidBuffer, -1) }
      ELSE IF w.assert_enabled /\ oldest_buffer_index = w.next_buffer_index
      THEN { Return(Trap(w, "next: oldest_buffer_index != next_buffer_index"),
                    InvalidBuffer, -1) }
      ELSE UNION { Grab(buffer) : buffer \in BufferRead(w, oldest_buffer_index) }

\* streaming_read_buffer_next: the set of returns it can make.  want_data
\* says whether the caller passed a per_buffer_data pointer.
streaming_read_buffer_next(w, want_data) ==
  IF Halted(w) THEN { Return(w, InvalidBuffer, -1) }
  ELSE IF ~want_data /\ w.ios_in_progress = 0 /\ w.pinned_buffers = 1
          /\ w.distance = 1
  THEN NextFastPath(w)
  ELSE IF w.pinned_buffers = 0
  THEN IF w.assert_enabled /\ w.oldest_buffer_index # w.next_buffer_index
       THEN { Return(Trap(w, "next: oldest_buffer_index == next_buffer_index"),
                     InvalidBuffer, -1) }
       ELSE IF w.distance = 0
       THEN { Return(w, InvalidBuffer, -1) }
       ELSE UNION { IF Halted(x) \/ x.distance = 0
                    THEN { Return(x, InvalidBuffer, -1) }
                    ELSE NextGrabOldest(x, want_data)
                    : x \in streaming_read_look_ahead(w) }
  ELSE NextGrabOldest(w, want_data)

\* The loop of streaming_read_buffer_end, followed for at most fuel
\* iterations, and the end of the function.
RECURSIVE EndLoop(_, _)
EndLoop(w, fuel) ==
  IF fuel = 0 THEN { [w EXCEPT !.ended = "still releasing"] }
  ELSE UNION {
         IF Halted(r.w) THEN { r.w }
         ELSE IF r.buffer # InvalidBuffer
         THEN EndLoop([r.w EXCEPT !.released = Append(@, r.buffer)], fuel - 1)
         ELSE IF r.w.assert_enabled /\ r.w.pinned_buffers # 0
         THEN { Trap(r.w, "end: pinned_buffers == 0") }
         ELSE IF r.w.assert_enabled /\ r.w.ios_in_progress # 0
         THEN { Trap(r.w, "end: ios_in_progress == 0") }
         ELSE { [r.w EXCEPT !.ended = "released"] }
         : r \in streaming_read_buffer_next(w, FALSE) }

\* More iterations than the stream can hold pins for.
EndFuel(w) == w.max_pinned_buffers + w.buffer_io_size + MaxCalls + 1

\* streaming_read_buffer_end: the set of states it can end in.
streaming_read_buffer_end(w) == EndLoop([w EXCEPT !.distance = 0], EndFuel(w))

\* ------------------------------------------------------------------------
\* aio.c: the handle pool and the processes
\* ------------------------------------------------------------------------

\* A handle is acquired only while its generation is at most MaxReclaims, so
\* each handle carries at most MaxReclaims I/Os.
MaxReclaims == 2
\* At most MaxIos handles are acquired in all, and at most MaxFairIos where
\* termination is checked.
MaxIos == 2
MaxFairIos == 1
\* At most MaxRefs references are published.
MaxRefs == 2
\* At most MaxWaiters backends are inside pgaio_io_ref_wait or
\* pgaio_io_ref_check_done at a time.
MaxWaiters == 1

\* Process numbers: the backends, and the I/O worker of the "worker" method.
Backends == {1, 2}
Workers == {0}
Procs == Workers \cup Backends

\* Each backend's idle_ios as built at startup: its io_max_concurrency
\* handles, in index order.
IdleIosAtStart == (1 :> << 1, 2 >>) @@ (2 :> << 3 >>)

\* Each backend's idle_bbs as built at startup: its bounce buffers.
IdleBbsAtStart == (1 :> << 1, 2 >>) @@ (2 :> << 3 >>)

Range(s) == { s[i] : i \in DOMAIN s }

Handles == UNION { Range(IdleIosAtStart[b]) : b \in Backends }

\* ioh->owner_procno, set at startup and never written again.
owner_procno == [h \in Handles |->
                   CHOOSE b \in Backends : h \in Range(IdleIosAtStart[b])]

NULL == 0
InitialGeneration == 1
PGAIO_SUBMIT_BATCH_SIZE == 2

\* "sync" is the method of the tree; "worker" stands for a method that does
\* not execute synchronously: its submit puts the staged handles in flight
\* and another process completes them.
IoMethods == {"sync", "worker"}

\* What pgaio_io_perform_synchronously stores in ioh->result for the I/O
\* carried by handle h in generation g (the result of the system call, or
\* -errno when it failed), and the subject data its issuer attached: aio.c
\* passes both on without looking at them, so one value per I/O, all
\* distinct, is enough.  The system calls of backend 2 fail.
IoResult(h, g) == IF h \in Range(IdleIosAtStart[2]) THEN 0 - (10 * h + g) ELSE 10 * h + g
SubjectData(h, g) == 100 * h + g

\* A handle carries at most AIO_MAX_SHARED_CALLBACKS shared callbacks.
AIO_MAX_SHARED_CALLBACKS == 2

\* aio_shared_cbs[]: the table has three entries.  Entry 0 has no complete
\* callback.  Callback 1 has a prepare callback, and its complete callback
\* turns a negative result into an error; callback 2 has no prepare
\* callback, and its complete callback counts in one more byte while the
\* result is not an error.
aio_shared_cbs_prepare(cbid) == cbid = 1

aio_shared_cbs(cbid, result) ==
  IF cbid = 1
  THEN [result EXCEPT !.status = IF result.result < 0 THEN "ARS_ERROR" ELSE @]
  ELSE [result EXCEPT !.result = IF result.status = "ARS_OK" THEN @ + 1 ELSE @]

\* A PgAioHandle at startup.  state_generation and reclaims are history:
\* the generation in which state was last written, and the number of
\* pgaio_io_reclaim calls on the handle.
HandleAtStart ==
  [ state |-> "IDLE",
    generation |-> InitialGeneration,
    result |-> 0,
    distilled_result |-> [status |-> "ARS_UNKNOWN", result |-> 0],
    scb_data |-> 0,
    report_return |-> NULL,
    resowner |-> FALSE,
    cv |-> {},
    state_generation |-> InitialGeneration,
    reclaims |-> 0,
    bounce_buffers |-> << >>,
    shared_callbacks |-> << >> ]

\* What is recorded for the I/O (h, g): whether its handle was acquired, the
\* PgAioReturn its issuer passed to pgaio_io_get_nb (passed, written, result,
\* subject_data), whether the I/O was submitted, completed, and lost its
\* resource owner, and the calls of its shared callbacks in the order they
\* were made.
IoAtStart ==
  [ acquired |-> FALSE, passed |-> FALSE, written |-> FALSE,
    result |-> [status |-> "ARS_UNKNOWN", result |-> 0],
    subject_data |-> 0,
    submitted |-> FALSE, completed |-> FALSE, resowner_released |-> FALSE,
    calls |-> << >> ]

\* A process outside the AIO functions.  Inside one, ioh is the handle it
\* works on; in pgaio_io_ref_wait and pgaio_io_ref_check_done ref_generation
\* is the generation of the reference, state the value the last
\* pgaio_io_was_recycled stored in *state, and submitted whether the I/O
\* of the reference had been submitted when the function was called.  args
\* holds the arguments and local variables of a pgaio_io_get.
AtRest ==
  [ pc |-> "idle", call |-> "none", ioh |-> NULL, ref_generation |-> 0,
    state |-> "IDLE", state_generation |-> 0, submitted |-> FALSE,
    args |-> << >> ]

\* Process p enters a function: call names it, pc is its first step.
Call(p, call, pc, h, g) ==
  [proc EXCEPT ![p] = [pc |-> pc, call |-> call, ioh |-> h, ref_generation |-> g,
                       state |-> "IDLE", state_generation |-> 0,
                       submitted |-> FALSE, args |-> << >>]]

Goto(p, pc) == [proc EXCEPT ![p].pc = pc]

\* Process p returns from the function it is in: to pgaio_io_get or
\* pgaio_bounce_buffer_get when that has called it, and else to where it was at rest.
Done(p) ==
  [proc EXCEPT ![p] = IF proc[p].call \in {"get", "bounce_buffer_get"}
                      THEN [AtRest EXCEPT !.call = proc[p].call,
                                          !.pc = proc[p].args.ret_pc,
                                          !.args = proc[p].args]
                      ELSE AtRest]

\* A write of ioh->state.
SetState(io, s) == [io EXCEPT !.state = s, !.state_generation = io.generation]

\* pgaio_io_prepare_submit on each handle of staged: what the submit function
\* of a method is to do with the batch it is handed.
SubmitNothing(handles, staged) == handles

Submit(handles, staged) ==
  [h \in Handles |-> IF h \in Range(staged)
                     THEN SetState(handles[h], "IN_FLIGHT") ELSE handles[h]]

LogSubmitted(log, handles, staged) ==
  [h \in Handles |-> IF h \in Range(staged)
                     THEN [log[h] EXCEPT ![handles[h].generation].submitted = TRUE]
                     ELSE log[h]]

\* The I/Os begun so far.
Acquired == { io \in Handles \X (1..MaxReclaims) : io_log[io[1]][io[2]].acquired }

\* The backends inside pgaio_io_ref_wait or pgaio_io_ref_check_done.
Waiting == { q \in Backends : proc[q].call \in {"ref_wait", "ref_check_done"} }

\* Whether the build has assertions (USE_ASSERT_CHECKING): a failed Assert
\* aborts the process.
USE_ASSERT_CHECKING == stream.assert_enabled

\* pgaio_io_needs_synchronous_execution
pgaio_io_needs_synchronous_execution == io_method = "sync"

\* dclist_pop_head_node(&my_aio->idle_ios) in pgaio_io_get_nb: what is left
\* of the list.
dclist_peek_head_node(list) == list
dclist_pop_head_node(list) == Tail(list)

\* The check of pgaio_io_get_nb that no handle is handed out already.
MayHandOutAlways(aio) == TRUE
MayHandOut(aio) == aio.handed_out_io = NULL

\* The step of the generation in pgaio_io_reclaim.
SameGeneration(g) == g
NextGeneration(g) == g + 1

\* The two published writes of pgaio_io_reclaim, in program order.
ReclaimWritesStateFirst == << "state", "generation" >>
ReclaimWrites == << "generation", "state" >>

\* Whether pgaio_io_reclaim stores the result through report_return.
ReportsNever(io) == FALSE
ReportsResult(io) == io.report_return # NULL /\ io.state # "HANDED_OUT"

\* Whether pgaio_io_ref_wait and pgaio_io_ref_check_done reclaim a handle
\* they found COMPLETED_SHARED.
ReclaimsAlways(am_owner) == TRUE
ReclaimsCompleted(am_owner) == am_owner

\* The states in which the inner loop of pgaio_io_ref_wait goes to sleep.
SleepStatesWithCompleted == {"REAPED", "DEFINED", "IN_FLIGHT", "COMPLETED_SHARED"}
SleepStates == {"REAPED", "DEFINED", "IN_FLIGHT"}

\* ------------------------------------------------------------------------
\* aio.c: acquiring, releasing and reclaiming a handle
\* ------------------------------------------------------------------------

\* The backends inside pgaio_io_get.
Getting == { q \in Backends : proc[q].call = "get" }

\* The body of pgaio_io_get_nb(resowner, ret) in backend p.  A full batch is
\* submitted first; with a handle handed out already the call fails
\* (ereport(ERROR)), with no idle handle it returns NULL: neither changes
\* anything more.  got and none are where p is after the return of a handle
\* and of NULL.
GetNb(p, resowner, ret, got, none) ==
  /\ LET full == Len(my_aio[p].staged_ios) >= PGAIO_SUBMIT_BATCH_SIZE
         staged == my_aio[p].staged_ios
         handles1 == IF full THEN Submit(io_handles, staged) ELSE io_handles
         log1 == IF full THEN LogSubmitted(io_log, io_handles, staged) ELSE io_log
         aio1 == IF full THEN [my_aio[p] EXCEPT !.staged_ios = << >>] ELSE my_aio[p]
     IN  IF ~MayHandOut(aio1) \/ aio1.idle_ios = << >>
         THEN /\ io_handles' = handles1
              /\ io_log' = log1
              /\ my_aio' = [my_aio EXCEPT ![p] = aio1]
              /\ proc' = IF ~MayHandOut(aio1)
                         THEN Call(p, "get_nb", "ERROR", NULL, 0) ELSE none
         ELSE LET h == Head(aio1.idle_ios)
                  g == handles1[h].generation
              IN  /\ g <= MaxReclaims
                  /\ Cardinality(Acquired) + Cardinality(Getting \ {p}) < MaxIos
                  /\ io_handles' =
                       [handles1 EXCEPT ![h] =
                          [SetState(@, "HANDED_OUT") EXCEPT
                             !.resowner = resowner,
                             !.report_return = IF ret THEN g ELSE @]]
                  /\ io_log' = [log1 EXCEPT ![h][g].acquired = TRUE,
                                            ![h][g].passed = ret]
                  /\ my_aio' = [my_aio EXCEPT ![p] =
                                  [aio1 EXCEPT !.handed_out_io = h,
                                               !.idle_ios = dclist_pop_head_node(@)]]
                  /\ proc' = got
  /\ UNCHANGED << stream, twin, io_method, refs >>

\* pgaio_io_get_nb(resowner, ret) by backend p.
pgaio_io_get_nb(p, resowner, ret) ==
  /\ proc[p].pc = "idle"
  /\ GetNb(p, resowner, ret, proc, proc)

\* pgaio_io_release(ioh) by backend p: the handed-out handle goes to
\* pgaio_io_reclaim, after Assert(ioh->resowner); any other handle is an
\* ERROR.
pgaio_io_release(p, h) ==
  /\ proc[p].pc = "idle"
  /\ IF h # my_aio[p].handed_out_io
     THEN /\ proc' = Call(p, "release", "ERROR", h, 0)
          /\ my_aio' = my_aio
     ELSE IF USE_ASSERT_CHECKING /\ ~io_handles[h].resowner
     THEN /\ proc' = Call(p, "release", "TRAP", h, 0)
          /\ my_aio' = my_aio
     ELSE /\ my_aio' = [my_aio EXCEPT ![p].handed_out_io = NULL]
          /\ proc' = Call(p, "release", "reclaim", h, 0)
  /\ UNCHANGED << stream, twin, io_method, io_handles, refs, io_log >>

\* The end of pgaio_io_release_resowner: the reporting of the result is
\* unregistered.
KeepReportReturn(report_return) == report_return
ForgetReportReturn(report_return) == NULL

\* pgaio_io_release_resowner(ioh_node, on_error) by backend p: the resource
\* owner that handle h is registered with is being released.
pgaio_io_release_resowner(p, h) ==
  /\ proc[p].pc = "idle"
  /\ owner_procno[h] = p
  /\ io_handles[h].resowner
  /\ LET io == io_handles[h]
         staged == my_aio[p].staged_ios
         forgotten == [io_handles EXCEPT ![h].resowner = FALSE]
     IN  /\ io_log' = IF io.state \in {"DEFINED", "PREPARED"}
                      THEN [LogSubmitted(io_log, io_handles, staged) EXCEPT
                              ![h][io.generation].resowner_released = TRUE]
                      ELSE [io_log EXCEPT ![h][io.generation].resowner_released = TRUE]
         /\ IF /\ USE_ASSERT_CHECKING
               /\ io.state = "HANDED_OUT"
               /\ my_aio[p].handed_out_io \notin {h, NULL}
            THEN /\ io_handles' = forgotten
                 /\ my_aio' = my_aio
                 /\ proc' = Call(p, "release_resowner", "TRAP", h, 0)
            ELSE IF io.state \in {"HANDED_OUT", "COMPLETED_LOCAL"}
            THEN /\ io_handles' = forgotten
                 /\ my_aio' = [my_aio EXCEPT ![p].handed_out_io =
                                 IF @ = h THEN NULL ELSE @]
                 /\ proc' = Call(p, "release_resowner", "reclaim", h, 0)
            ELSE IF io.state \in {"DEFINED", "PREPARED"}
            THEN /\ io_handles' = [Submit(forgotten, staged) EXCEPT
                                     ![h].report_return = ForgetReportReturn(@)]
                 /\ my_aio' = [my_aio EXCEPT ![p].staged_ios = << >>]
                 /\ proc' = proc
            ELSE /\ io_handles' = [forgotten EXCEPT
                                     ![h].report_return = ForgetReportReturn(@)]
                 /\ UNCHANGED << my_aio, proc >>
  /\ UNCHANGED << stream, twin, io_method, refs >>

\* pgaio_io_add_shared_cb(ioh, cbid) by backend p on the handle handed out
\* to it: an ERROR for a cbid outside the table or without a complete
\* callback, a PANIC when the handle has AIO_MAX_SHARED_CALLBACKS callbacks
\* already, and else cbid is added behind the callbacks of the handle.
pgaio_io_add_shared_cb(p, cbid) ==
  /\ proc[p].pc = "idle"
  /\ my_aio[p].handed_out_io # NULL
  /\ LET h == my_aio[p].handed_out_io
     IN  IF cbid >= 3 \/ cbid = 0
         THEN /\ proc' = Call(p, "add_shared_cb", "ERROR", h, 0)
              /\ io_handles' = io_handles
         ELSE IF Len(io_handles[h].shared_callbacks) >= AIO_MAX_SHARED_CALLBACKS
         THEN /\ proc' = Call(p, "add_shared_cb", "PANIC", h, 0)
              /\ io_handles' = io_handles
         ELSE /\ proc' = proc
              /\ io_handles' = [io_handles EXCEPT ![h].shared_callbacks = Append(@, cbid)]
  /\ UNCHANGED << stream, twin, io_method, my_aio, refs, io_log >>

\* pgaio_io_get_ref(ioh, ior) by the owner, which publishes the reference.
pgaio_io_get_ref(p, h) ==
  /\ proc[p].pc = "idle"
  /\ owner_procno[h] = p
  /\ io_handles[h].state \in {"HANDED_OUT", "DEFINED", "PREPARED"}
  /\ << h, io_handles[h].generation >> \notin refs
  /\ Cardinality(refs) < MaxRefs
  /\ refs' = refs \cup { << h, io_handles[h].generation >> }
  /\ UNCHANGED << stream, twin, io_method, io_handles, my_aio, proc, io_log >>

\* One of the two published writes of pgaio_io_reclaim.
ReclaimWriteLocal(io, field) ==
  IF field = "generation"
  THEN [io EXCEPT !.generation = NextGeneration(@)]
  ELSE SetState(io, IF io.state = "COMPLETED_SHARED" THEN "COMPLETED_LOCAL" ELSE "IDLE")

ReclaimWrite(io, field) ==
  IF field = "generation"
  THEN [io EXCEPT !.generation = NextGeneration(@)]
  ELSE SetState(io, "IDLE")

\* slist_push_head(list, node)
slist_push_head(list, node) == << node >> \o list

\* "reclaim all associated bounce buffers": each one is taken off
\* ioh->bounce_buffers, from its head on, and pushed on idle_bbs.
ReclaimBounceBuffersDropped(bounce_buffers, idle_bbs) == idle_bbs

RECURSIVE ReclaimBounceBuffers(_, _)
ReclaimBounceBuffers(bounce_buffers, idle_bbs) ==
  IF bounce_buffers = << >>
  THEN idle_bbs
  ELSE ReclaimBounceBuffers(Tail(bounce_buffers),
                            slist_push_head(idle_bbs, Head(bounce_buffers)))

\* pgaio_io_reclaim up to its first published write: the result is stored
\* through report_return, the bounce buffers go back on idle_bbs, the
\* resource owner forgets the handle, the fields of the I/O are cleared.
pgaio_io_reclaim(p) ==
  /\ proc[p].pc = "reclaim"
  /\ LET h == proc[p].ioh
         io == io_handles[h]
         cleared == [io EXCEPT !.resowner = FALSE,
                               !.report_return = NULL,
                               !.reclaims = @ + 1,
                               !.bounce_buffers = << >>,
                               !.shared_callbacks = << >>]
     IN  /\ io_log' = IF ReportsResult(io)
                      THEN [io_log EXCEPT ![h][io.report_return] =
                              [@ EXCEPT !.written = TRUE,
                                        !.result = io.distilled_result,
                                        !.subject_data = io.scb_data]]
                      ELSE io_log
         /\ io_handles' = [io_handles EXCEPT ![h] = ReclaimWrite(cleared, ReclaimWrites[1])]
         /\ my_aio' = [my_aio EXCEPT ![p].idle_bbs =
                                      ReclaimBounceBuffers(io.bounce_buffers, @)]
  /\ proc' = Goto(p, "reclaim_idle")
  /\ UNCHANGED << stream, twin, io_method, refs >>

\* pgaio_io_reclaim from its second published write on: the handle goes back
\* on the idle_ios of the process that reclaimed it.
pgaio_io_reclaim_idle(p) ==
  /\ proc[p].pc = "reclaim_idle"
  /\ LET h == proc[p].ioh
     IN  /\ io_handles' = [io_handles EXCEPT ![h] = ReclaimWrite(@, ReclaimWrites[2])]
         /\ my_aio' = [my_aio EXCEPT ![p].idle_ios = Append(@, h)]
  /\ proc' = Done(p)
  /\ UNCHANGED << stream, twin, io_method, refs, io_log >>

\* ------------------------------------------------------------------------
\* aio.c: preparing, submitting and completing an I/O
\* ------------------------------------------------------------------------

\* pgaio_io_prepare(ioh, op) on the handed-out handle, up to the call of
\* pgaio_io_prepare_subject.  The issuer has attached its subject data.
pgaio_io_prepare(p) ==
  /\ proc[p].pc = "idle"
  /\ my_aio[p].handed_out_io # NULL
  /\ LET h == my_aio[p].handed_out_io
     IN  /\ io_handles' = [io_handles EXCEPT ![h] =
                             [SetState(@, "DEFINED") EXCEPT
                                !.result = 0,
                                !.scb_data = SubjectData(h, io_handles[h].generation)]]
         /\ proc' = Call(p, "prepare", "prepare_subject", h, 0)
  /\ my_aio' = [my_aio EXCEPT ![p].handed_out_io = NULL]
  /\ UNCHANGED << stream, twin, io_method, refs, io_log >>

\* pgaio_io_prepare from pgaio_io_prepare_subject on: the prepare callbacks
\* are called, for i = num_shared_callbacks down to 1 on
\* shared_callbacks[i - 1] where that callback has one; the handle is
\* PREPARED, and staged unless the method executes synchronously.
pgaio_io_prepare_staged(p) ==
  /\ proc[p].pc = "prepare_subject"
  /\ LET h == proc[p].ioh
         cbs == io_handles[h].shared_callbacks
         n == Len(cbs)
         visited == [k \in 1..n |->
                      [phase |-> "prepare", i |-> n + 1 - k, cbid |-> cbs[n + 1 - k],
                       result |-> [status |-> "ARS_UNKNOWN", result |-> 0]]]
         has_prepare(call) == aio_shared_cbs_prepare(call.cbid)
     IN  /\ io_handles' = [io_handles EXCEPT ![h] = SetState(@, "PREPARED")]
         /\ io_log' = [io_log EXCEPT ![h][io_handles[h].generation].calls =
                                      @ \o SelectSeq(visited, has_prepare)]
         /\ IF pgaio_io_needs_synchronous_execution
            THEN /\ proc' = Goto(p, "prepare_submit")
                 /\ my_aio' = my_aio
            ELSE /\ proc' = Done(p)
                 /\ my_aio' = [my_aio EXCEPT ![p].staged_ios = Append(@, h)]
  /\ UNCHANGED << stream, twin, io_method, refs >>

\* pgaio_io_prepare_submit, called by pgaio_io_prepare.
pgaio_io_prepare_submit(p) ==
  /\ proc[p].pc = "prepare_submit"
  /\ LET h == proc[p].ioh
     IN  /\ io_handles' = [io_handles EXCEPT ![h] = SetState(@, "IN_FLIGHT")]
         /\ io_log' = [io_log EXCEPT ![h][io_handles[h].generation].submitted = TRUE]
  /\ proc' = Goto(p, "perform")
  /\ UNCHANGED << stream, twin, io_method, my_aio, refs >>

\* pgaio_io_process_completion(ioh, result) up to state = AHS_REAPED.
ReapedSkipped(io, result) == [SetState(io, "COMPLETED_SHARED") EXCEPT !.result = result]
Reaped(io, result) == [SetState(io, "REAPED") EXCEPT !.result = result]

\* pgaio_io_perform_synchronously: the system call, and the beginning of
\* pgaio_io_process_completion.
pgaio_io_perform_synchronously(p) ==
  /\ proc[p].pc = "perform"
  /\ LET h == proc[p].ioh
     IN  io_handles' = [io_handles EXCEPT ![h] =
                          Reaped(@, IoResult(h, @.generation))]
  /\ proc' = Goto(p, "completion_subject")
  /\ UNCHANGED << stream, twin, io_method, my_aio, refs, io_log >>

\* pgaio_submit_staged by backend p.
pgaio_submit_staged(p) ==
  /\ proc[p].pc = "idle"
  /\ my_aio[p].staged_ios # << >>
  /\ io_handles' = Submit(io_handles, my_aio[p].staged_ios)
  /\ io_log' = LogSubmitted(io_log, io_handles, my_aio[p].staged_ios)
  /\ my_aio' = [my_aio EXCEPT ![p].staged_ios = << >>]
  /\ UNCHANGED << stream, twin, io_method, proc, refs >>

\* The worker of the "worker" method takes an I/O in flight, executes it
\* and begins pgaio_io_process_completion.
WorkerReaps(w, h) ==
  /\ w \in Workers
  /\ io_method = "worker"
  /\ proc[w].pc = "idle"
  /\ io_handles[h].state = "IN_FLIGHT"
  /\ io_handles' = [io_handles EXCEPT ![h] = Reaped(@, IoResult(h, @.generation))]
  /\ proc' = Call(w, "completion", "completion_subject", h, 0)
  /\ UNCHANGED << stream, twin, io_method, my_aio, refs, io_log >>

\* The loop of pgaio_io_process_completion_subject from i on, result being
\* the running result: the calls complete(ioh, result) it makes, in order.
RECURSIVE CompletionCallsForward(_, _, _)
CompletionCallsForward(io, i, result) ==
  IF i = 0 THEN << >>
  ELSE LET j == Len(io.shared_callbacks) + 1 - i
           cbid == io.shared_callbacks[j]
       IN  << [phase |-> "complete", i |-> j, cbid |-> cbid, result |-> result] >>
             \o CompletionCallsForward(io, i - 1, aio_shared_cbs(cbid, result))

RECURSIVE CompletionCalls(_, _, _)
CompletionCalls(io, i, result) ==
  IF i = 0 THEN << >>
  ELSE LET cbid == io.shared_callbacks[i]
       IN  << [phase |-> "complete", i |-> i, cbid |-> cbid, result |-> result] >>
             \o CompletionCalls(io, i - 1, aio_shared_cbs(cbid, result))

\* The result pgaio_io_process_completion_subject distills from ioh->result:
\* what the last callback called returns, and with no callback the result
\* the loop starts with.
DistilledResultKept(io) == io.distilled_result
DistilledResult(io) ==
  LET result == [status |-> "ARS_OK", result |-> io.result]
      calls == CompletionCalls(io, Len(io.shared_callbacks), result)
  IN  IF calls = << >> THEN result
      ELSE aio_shared_cbs(calls[Len(calls)].cbid, calls[Len(calls)].result)

\* pgaio_io_process_completion_subject, and state = AHS_COMPLETED_SHARED.
pgaio_io_process_completion_subject(p) ==
  /\ proc[p].pc = "completion_subject"
  /\ LET h == proc[p].ioh
         io == io_handles[h]
     IN  /\ io_handles' = [io_handles EXCEPT ![h] =
                             [SetState(@, "COMPLETED_SHARED") EXCEPT
                                !.distilled_result = DistilledResult(io_handles[h])]]
         /\ io_log' = [io_log EXCEPT
                         ![h][io.generation].completed = TRUE,
                         ![h][io.generation].calls =
                            @ \o CompletionCalls(io, Len(io.shared_callbacks),
                                                 [status |-> "ARS_OK", result |-> io.result])]
  /\ proc' = Goto(p, "broadcast")
  /\ UNCHANGED << stream, twin, io_method, my_aio, refs >>

\* ConditionVariableBroadcast: every process on the wait list is taken off
\* it and woken.
ConditionVariableBroadcast(waiters) == {}

\* The end of pgaio_io_process_completion: the broadcast, and the reclaim
\* when the completing process owns the handle.
pgaio_io_process_completion(p) ==
  /\ proc[p].pc = "broadcast"
  /\ LET h == proc[p].ioh
     IN  /\ io_handles' = [io_handles EXCEPT ![h].cv = ConditionVariableBroadcast(@)]
         /\ proc' = IF owner_procno[h] = p THEN Goto(p, "reclaim") ELSE Done(p)
  /\ UNCHANGED << stream, twin, io_method, my_aio, refs, io_log >>

\* ------------------------------------------------------------------------
\* aio.c: waiting for an I/O through a reference
\* ------------------------------------------------------------------------

\* The first read of pgaio_io_was_recycled: *state = ioh->state.
ReadState(p, h) ==
  [proc EXCEPT ![p].state = io_handles[h].state,
               ![p].state_generation = io_handles[h].state_generation]

\* The second read of pgaio_io_was_recycled, and its verdict.
pgaio_io_was_recycled(p) ==
  io_handles[proc[p].ioh].generation # proc[p].ref_generation

\* pgaio_io_ref_wait(ior) by backend p: pgaio_io_from_ref, and the first
\* read of the first pgaio_io_was_recycled.
pgaio_io_ref_wait(p, ref) ==
  /\ p \in Backends
  /\ proc[p].pc = "idle"
  /\ ref \in refs
  /\ Cardinality(Waiting) < MaxWaiters
  /\ proc' = [proc EXCEPT ![p] =
                [pc |-> "wait_generation", call |-> "ref_wait",
                 ioh |-> ref[1], ref_generation |-> ref[2],
                 state |-> io_handles[ref[1]].state,
                 state_generation |-> io_handles[ref[1]].state_generation,
                 submitted |-> io_log[ref[1]][ref[2]].submitted,
                 args |-> << >>]]
  /\ UNCHANGED << stream, twin, io_method, io_handles, my_aio, refs, io_log >>

\* pgaio_io_ref_wait from the verdict of the first pgaio_io_was_recycled to
\* the loop: what the owner does before it waits.
pgaio_io_ref_wait_owner(p) ==
  /\ proc[p].pc = "wait_generation"
  /\ LET am_owner == owner_procno[proc[p].ioh] = p
         state == proc[p].state
     IN  proc' =
           IF pgaio_io_was_recycled(p) THEN Done(p)
           ELSE IF am_owner /\ state \in {"DEFINED", "PREPARED"}
           THEN Goto(p, "wait_submit")
           ELSE IF am_owner /\ state \notin {"IN_FLIGHT", "REAPED", "COMPLETED_SHARED",
                                           "COMPLETED_LOCAL"}
           THEN Goto(p, "PANIC")
           ELSE IF am_owner /\ state = "COMPLETED_LOCAL"
           THEN Goto(p, "reclaim")
           ELSE Goto(p, "loop_state")
  /\ UNCHANGED << stream, twin, io_method, io_handles, my_aio, refs, io_log >>

\* pgaio_io_ref_wait: the owner's pgaio_submit_staged.
pgaio_io_ref_wait_submit(p) ==
  /\ proc[p].pc = "wait_submit"
  /\ io_handles' = Submit(io_handles, my_aio[p].staged_ios)
  /\ io_log' = LogSubmitted(io_log, io_handles, my_aio[p].staged_ios)
  /\ my_aio' = [my_aio EXCEPT ![p].staged_ios = << >>]
  /\ proc' = Goto(p, "loop_state")
  /\ UNCHANGED << stream, twin, io_method, refs >>

\* The first read of pgaio_io_was_recycled in the loop of pgaio_io_ref_wait
\* and in its inner loop.
pgaio_io_was_recycled_state(p) ==
  /\ proc[p].pc \in {"loop_state", "sleep_state"}
  /\ proc' = [ReadState(p, proc[p].ioh) EXCEPT
                ![p].pc = IF proc[p].pc = "loop_state"
                          THEN "loop_generation" ELSE "sleep_generation"]
  /\ UNCHANGED << stream, twin, io_method, io_handles, my_aio, refs, io_log >>

\* The loop of pgaio_io_ref_wait from the verdict of pgaio_io_was_recycled:
\* the switch on the state read.  The method provides no wait_one.
pgaio_io_ref_wait_loop(p) ==
  /\ proc[p].pc = "loop_generation"
  /\ LET am_owner == owner_procno[proc[p].ioh] = p
         state == proc[p].state
     IN  proc' =
           IF pgaio_io_was_recycled(p) THEN Done(p)
           ELSE IF state \in {"IDLE", "HANDED_OUT"}
           THEN Goto(p, "ERROR")
           ELSE IF state \in {"IN_FLIGHT", "PREPARED", "DEFINED", "REAPED"}
           THEN Goto(p, "prepare_to_sleep")
           ELSE IF state = "COMPLETED_SHARED" /\ ReclaimsCompleted(am_owner)
           THEN Goto(p, "reclaim")
           ELSE Done(p)
  /\ UNCHANGED << stream, twin, io_method, io_handles, my_aio, refs, io_log >>

\* elog(ERROR) and ereport(ERROR): the call is abandoned.
pgaio_io_ref_wait_error(p) ==
  /\ proc[p].pc = "ERROR"
  /\ proc' = [proc EXCEPT ![p] = AtRest]
  /\ UNCHANGED << stream, twin, io_method, io_handles, my_aio, refs, io_log >>

\* ConditionVariablePrepareToSleep(&ioh->cv)
ConditionVariablePrepareToSleep(p) ==
  /\ proc[p].pc = "prepare_to_sleep"
  /\ io_handles' = [io_handles EXCEPT ![proc[p].ioh].cv = @ \cup {p}]
  /\ proc' = Goto(p, "sleep_state")
  /\ UNCHANGED << stream, twin, io_method, my_aio, refs, io_log >>

\* The inner loop of pgaio_io_ref_wait from the verdict of
\* pgaio_io_was_recycled: sleep, or leave the loop.
pgaio_io_ref_wait_sleep(p) ==
  /\ proc[p].pc = "sleep_generation"
  /\ proc' = IF pgaio_io_was_recycled(p) \/ proc[p].state \notin SleepStates
             THEN Goto(p, "cancel_sleep")
             ELSE Goto(p, "sleep")
  /\ UNCHANGED << stream, twin, io_method, io_handles, my_aio, refs, io_log >>

\* ConditionVariableSleep(&ioh->cv): returns once a broadcast has taken the
\* process off the wait list, and puts it back on the list.
ConditionVariableSleep(p) ==
  /\ proc[p].pc = "sleep"
  /\ p \notin io_handles[proc[p].ioh].cv
  /\ io_handles' = [io_handles EXCEPT ![proc[p].ioh].cv = @ \cup {p}]
  /\ proc' = Goto(p, "sleep_state")
  /\ UNCHANGED << stream, twin, io_method, my_aio, refs, io_log >>

\* ConditionVariableCancelSleep(), and back to the top of the loop.
ConditionVariableCancelSleep(p) ==
  /\ proc[p].pc = "cancel_sleep"
  /\ io_handles' = [io_handles EXCEPT ![proc[p].ioh].cv = @ \ {p}]
  /\ proc' = Goto(p, "loop_state")
  /\ UNCHANGED << stream, twin, io_method, my_aio, refs, io_log >>

\* pgaio_io_ref_check_done(ior) by backend p: pgaio_io_from_ref, and the
\* first read of pgaio_io_was_recycled.
pgaio_io_ref_check_done(p, ref) ==
  /\ p \in Backends
  /\ proc[p].pc = "idle"
  /\ ref \in refs
  /\ Cardinality(Waiting) < MaxWaiters
  /\ proc' = [proc EXCEPT ![p] =
                [pc |-> "check_generation", call |-> "ref_check_done",
                 ioh |-> ref[1], ref_generation |-> ref[2],
                 state |-> io_handles[ref[1]].state,
                 state_generation |-> io_handles[ref[1]].state_generation,
                 submitted |-> io_log[ref[1]][ref[2]].submitted,
                 args |-> << >>]]
  /\ UNCHANGED << stream, twin, io_method, io_handles, my_aio, refs, io_log >>

\* pgaio_io_ref_check_done from the verdict of pgaio_io_was_recycled.
pgaio_io_ref_check_done_state(p) ==
  /\ proc[p].pc = "check_generation"
  /\ LET am_owner == owner_procno[proc[p].ioh] = p
         state == proc[p].state
     IN  proc' =
           IF pgaio_io_was_recycled(p) THEN Done(p)
           ELSE IF state \in {"COMPLETED_SHARED", "COMPLETED_LOCAL"}
                   /\ ReclaimsCompleted(am_owner)
           THEN Goto(p, "reclaim")
           ELSE Done(p)
  /\ UNCHANGED << stream, twin, io_method, io_handles, my_aio, refs, io_log >>

\* What pgaio_io_ref_check_done returns from the verdict of
\* pgaio_io_was_recycled and the state that call stored.
pgaio_io_ref_check_done_owner_only(p) ==
  IF pgaio_io_was_recycled(p) THEN TRUE
  ELSE IF proc[p].state = "IDLE" THEN TRUE
  ELSE IF proc[p].state \in {"COMPLETED_SHARED", "COMPLETED_LOCAL"}
  THEN owner_procno[proc[p].ioh] = p
  ELSE FALSE

pgaio_io_ref_check_done_result(p) ==
  IF pgaio_io_was_recycled(p) THEN TRUE
  ELSE IF proc[p].state = "IDLE" THEN TRUE
  ELSE IF proc[p].state \in {"COMPLETED_SHARED", "COMPLETED_LOCAL"} THEN TRUE
  ELSE FALSE

\* ------------------------------------------------------------------------
\* aio.c: pgaio_io_get and pgaio_io_wait_for_free
\* ------------------------------------------------------------------------

\* The handles of backend p in index order: io_handles[io_handle_off + i]
\* is Own(p)[i + 1], and there are io_max_concurrency of them.
Own(p) == IdleIosAtStart[p]
io_max_concurrency(p) == Len(Own(p))

\* The arguments of a pgaio_io_get and the local variables of the
\* pgaio_io_wait_for_free it is in: the loop index i, reclaimed,
\* found_handed_out, and where the function that has been called returns to.
GetArgs(resowner, ret) ==
  [ resowner |-> resowner, ret |-> ret, i |-> 0, reclaimed |-> 0,
    found_handed_out |-> FALSE, ret_pc |-> "get_nb" ]

\* Backend p enters pgaio_io_wait_for_free.
WaitForFree(p, resowner, ret) ==
  [proc EXCEPT ![p] = [AtRest EXCEPT !.call = "get",
                                     !.pc = "wait_for_free",
                                     !.args = GetArgs(resowner, ret)]]

\* pgaio_io_get(resowner, ret) by backend p, up to the return of its first
\* pgaio_io_get_nb: with a handle the call returns, with NULL it goes on to
\* pgaio_io_wait_for_free.
pgaio_io_get(p, resowner, ret) ==
  /\ proc[p].pc = "idle"
  /\ (my_aio[p].handed_out_io = NULL /\ my_aio[p].idle_ios = << >>)
       => /\ Cardinality(Acquired) + Cardinality(Getting) < MaxIos
          /\ \A h \in Range(Own(p)) : io_handles[h].generation < MaxReclaims
  /\ GetNb(p, resowner, ret, proc, WaitForFree(p, resowner, ret))

\* pgaio_io_get: the pgaio_io_get_nb after a pgaio_io_wait_for_free.
pgaio_io_get_again(p) ==
  /\ proc[p].pc = "get_nb"
  /\ GetNb(p, proc[p].args.resowner, proc[p].args.ret,
           [proc EXCEPT ![p] = AtRest],
           WaitForFree(p, proc[p].args.resowner, proc[p].args.ret))

\* The states in which the scan of pgaio_io_wait_for_free waits for the
\* handle.
WaitStatesReaped == {"REAPED"}
WaitStates == {"REAPED", "IN_FLIGHT"}

\* The first loop of pgaio_io_wait_for_free, at handle i: a handle that is
\* COMPLETED_SHARED is reclaimed.
pgaio_io_wait_for_free_completed(p) ==
  /\ proc[p].pc = "wait_for_free"
  /\ proc[p].args.i < io_max_concurrency(p)
  /\ LET h == Own(p)[proc[p].args.i + 1]
     IN  proc' = IF io_handles[h].state = "COMPLETED_SHARED"
                 THEN [proc EXCEPT ![p].pc = "reclaim",
                                   ![p].ioh = h,
                                   ![p].args.i = @ + 1,
                                   ![p].args.reclaimed = @ + 1,
                                   ![p].args.ret_pc = "wait_for_free"]
                 ELSE [proc EXCEPT ![p].args.i = @ + 1]
  /\ UNCHANGED << stream, twin, io_method, io_handles, my_aio, refs, io_log >>

\* pgaio_io_wait_for_free after its first loop: it returns when a handle
\* was reclaimed, and else submits what is staged and begins the scan at
\* lastpos.
pgaio_io_wait_for_free_submit(p) ==
  /\ proc[p].pc = "wait_for_free"
  /\ proc[p].args.i >= io_max_concurrency(p)
  /\ IF proc[p].args.reclaimed > 0
     THEN /\ proc' = [proc EXCEPT ![p].pc = "get_nb"]
          /\ UNCHANGED << io_handles, my_aio, io_log >>
     ELSE /\ io_handles' = Submit(io_handles, my_aio[p].staged_ios)
          /\ io_log' = LogSubmitted(io_log, io_handles, my_aio[p].staged_ios)
          /\ my_aio' = [my_aio EXCEPT ![p].staged_ios = << >>]
          /\ proc' = [proc EXCEPT ![p].pc = "scan",
                                  ![p].args.i = my_aio[p].lastpos]
  /\ UNCHANGED << stream, twin, io_method, refs >>

\* The scan of pgaio_io_wait_for_free, at index i: the switch on the state
\* of handle i % io_max_concurrency.
pgaio_io_wait_for_free_scan(p) ==
  /\ proc[p].pc = "scan"
  /\ LET i == proc[p].args.i
         h == Own(p)[(i % io_max_concurrency(p)) + 1]
         state == io_handles[h].state
     IN  proc' =
           IF i >= my_aio[p].lastpos + io_max_concurrency(p)
           THEN Goto(p, "PANIC")
           ELSE IF state = "IDLE"
           THEN Goto(p, "get_nb")
           ELSE IF state \in {"DEFINED", "PREPARED", "COMPLETED_LOCAL"}
           THEN Goto(p, "ERROR")
           ELSE IF state = "HANDED_OUT"
           THEN IF proc[p].args.found_handed_out
                THEN Goto(p, "ERROR")
                ELSE [proc EXCEPT ![p].args.found_handed_out = TRUE,
                                  ![p].args.i = @ + 1]
           ELSE IF state \in WaitStates
           THEN [proc EXCEPT ![p].pc = "scan_wait",
                             ![p].ioh = h,
                             ![p].ref_generation = io_handles[h].generation,
                             ![p].args.ret_pc = "lastpos"]
           ELSE IF state = "COMPLETED_SHARED"
           THEN [proc EXCEPT ![p].pc = "reclaim",
                             ![p].ioh = h,
                             ![p].args.ret_pc = "lastpos"]
           ELSE [proc EXCEPT ![p].args.i = @ + 1]
  /\ UNCHANGED << stream, twin, io_method, io_handles, my_aio, refs, io_log >>

\* pgaio_io_wait_for_free calls pgaio_io_ref_wait(&ior): the first read of
\* its first pgaio_io_was_recycled.
pgaio_io_wait_for_free_wait(p) ==
  /\ proc[p].pc = "scan_wait"
  /\ proc' = [ReadState(p, proc[p].ioh) EXCEPT ![p].pc = "wait_generation"]
  /\ UNCHANGED << stream, twin, io_method, io_handles, my_aio, refs, io_log >>

\* pgaio_io_wait_for_free after the wait or the reclaim of its scan:
\* lastpos = i, and return.
pgaio_io_wait_for_free_lastpos(p) ==
  /\ proc[p].pc = "lastpos"
  /\ my_aio' = [my_aio EXCEPT ![p].lastpos = proc[p].args.i]
  /\ proc' = [proc EXCEPT ![p].pc = "get_nb"]
  /\ UNCHANGED << stream, twin, io_method, io_handles, refs, io_log >>

\* ------------------------------------------------------------------------
\* aio.c: bounce buffers
\* ------------------------------------------------------------------------

\* slist_pop_head_node(list): the list without its head.
slist_pop_head_node(list) == Tail(list)

\* Backend p takes the head of idle_bbs: it becomes handed_out_bb, and its
\* resowner is set (bb_resowner holds the bounce buffers whose resowner is
\* not NULL).
HandOutBb(aio) ==
  [aio EXCEPT !.handed_out_bb = Head(aio.idle_bbs),
              !.idle_bbs = slist_pop_head_node(@),
              !.bb_resowner = @ \cup {Head(aio.idle_bbs)}]

\* pgaio_bounce_buffer_get() by backend p: an error with a bounce buffer
\* handed out, pgaio_bounce_buffer_wait_for_free with idle_bbs empty, and
\* else the head of idle_bbs.
pgaio_bounce_buffer_get(p) ==
  /\ proc[p].pc = "idle"
  /\ IF my_aio[p].handed_out_bb # NULL
     THEN /\ proc' = Call(p, "bounce_buffer_get", "ERROR", NULL, 0)
          /\ UNCHANGED my_aio
     ELSE IF my_aio[p].idle_bbs = << >>
     THEN /\ proc' = [proc EXCEPT ![p] =
                        [AtRest EXCEPT !.call = "bounce_buffer_get",
                                       !.pc = "bb_wait_for_free",
                                       !.args = [i |-> 0, ret_pc |-> "bb_check"]]]
          /\ UNCHANGED my_aio
     ELSE /\ my_aio' = [my_aio EXCEPT ![p] = HandOutBb(@)]
          /\ UNCHANGED proc
  /\ UNCHANGED << stream, twin, io_method, io_handles, refs, io_log >>

\* pgaio_bounce_buffer_get after pgaio_bounce_buffer_wait_for_free.
pgaio_bounce_buffer_get_pop(p) ==
  /\ proc[p].pc = "bb_pop"
  /\ my_aio' = [my_aio EXCEPT ![p] = HandOutBb(@)]
  /\ proc' = [proc EXCEPT ![p] = AtRest]
  /\ UNCHANGED << stream, twin, io_method, io_handles, refs, io_log >>

\* pgaio_io_assoc_bounce_buffer(ioh, bb) by backend p.
pgaio_io_assoc_bounce_buffer(p, h, bb) ==
  /\ proc[p].pc = "idle"
  /\ IF my_aio[p].handed_out_bb # bb
     THEN /\ proc' = Call(p, "assoc_bounce_buffer", "ERROR", h, 0)
          /\ UNCHANGED << my_aio, io_handles >>
     ELSE /\ my_aio' = [my_aio EXCEPT ![p].handed_out_bb = NULL,
                                      ![p].bb_resowner = @ \ {bb}]
          /\ io_handles' = [io_handles EXCEPT ![h].bounce_buffers =
                                                slist_push_head(@, bb)]
          /\ UNCHANGED proc
  /\ UNCHANGED << stream, twin, io_method, refs, io_log >>

\* pgaio_bounce_buffer_release(bb) by backend p.
pgaio_bounce_buffer_release(p, bb) ==
  /\ proc[p].pc = "idle"
  /\ IF my_aio[p].handed_out_bb # bb
     THEN /\ proc' = Call(p, "bounce_buffer_release", "ERROR", NULL, 0)
          /\ UNCHANGED my_aio
     ELSE /\ my_aio' = [my_aio EXCEPT ![p].idle_bbs = slist_push_head(@, bb),
                                      ![p].handed_out_bb = NULL,
                                      ![p].bb_resowner = @ \ {bb}]
          /\ UNCHANGED proc
  /\ UNCHANGED << stream, twin, io_method, io_handles, refs, io_log >>

\* pgaio_bounce_buffer_wait_for_free up to its scan: what is staged is
\* submitted.
pgaio_bounce_buffer_wait_for_free_submit(p) ==
  /\ proc[p].pc = "bb_wait_for_free"
  /\ io_handles' = Submit(io_handles, my_aio[p].staged_ios)
  /\ io_log' = LogSubmitted(io_log, io_handles, my_aio[p].staged_ios)
  /\ my_aio' = [my_aio EXCEPT ![p].staged_ios = << >>]
  /\ proc' = [proc EXCEPT ![p].pc = "bb_scan",
                          ![p].args.i = my_aio[p].bb_lastpos]
  /\ UNCHANGED << stream, twin, io_method, refs >>

\* The states in which the scan of pgaio_bounce_buffer_wait_for_free passes
\* over the handle.
BbSkipStates == {"IDLE", "HANDED_OUT"}

\* The scan of pgaio_bounce_buffer_wait_for_free, at index i: the switch on
\* the state of handle i % io_max_concurrency, and what follows the loop.
pgaio_bounce_buffer_wait_for_free_scan(p) ==
  /\ proc[p].pc = "bb_scan"
  /\ LET i == proc[p].args.i
         h == Own(p)[(i % io_max_concurrency(p)) + 1]
         state == io_handles[h].state
     IN  proc' =
           IF i >= my_aio[p].bb_lastpos + io_max_concurrency(p)
           THEN IF my_aio[p].idle_bbs = << >>
                THEN Goto(p, "PANIC")
                ELSE Goto(p, "bb_pop")
           ELSE IF state \in BbSkipStates
           THEN [proc EXCEPT ![p].args.i = @ + 1]
           ELSE IF state \in {"DEFINED", "PREPARED"}
           THEN Goto(p, "ERROR")
           ELSE IF state \in {"REAPED", "IN_FLIGHT"}
           THEN IF io_handles[h].bounce_buffers # << >>
                THEN [proc EXCEPT ![p].pc = "scan_wait",
                                  ![p].ioh = h,
                                  ![p].ref_generation = io_handles[h].generation]
                ELSE [proc EXCEPT ![p].args.i = @ + 1]
           ELSE IF state \in {"COMPLETED_SHARED", "COMPLETED_LOCAL"}
           THEN [proc EXCEPT ![p].pc = "reclaim", ![p].ioh = h]
           ELSE [proc EXCEPT ![p].args.i = @ + 1]
  /\ UNCHANGED << stream, twin, io_method, io_handles, my_aio, refs, io_log >>

\* pgaio_bounce_buffer_wait_for_free after the wait or the reclaim of its
\* scan: with a bounce buffer on idle_bbs lastpos = i and it returns, and
\* else the scan goes on.
pgaio_bounce_buffer_wait_for_free_check(p) ==
  /\ proc[p].pc = "bb_check"
  /\ IF my_aio[p].idle_bbs # << >>
     THEN /\ my_aio' = [my_aio EXCEPT ![p].bb_lastpos = proc[p].args.i]
          /\ proc' = [proc EXCEPT ![p].pc = "bb_pop"]
     ELSE /\ proc' = [proc EXCEPT ![p].pc = "bb_scan", ![p].args.i = @ + 1]
          /\ UNCHANGED my_aio
  /\ UNCHANGED << stream, twin, io_method, io_handles, refs, io_log >>

\* The AIO subsystem after startup, with I/O method m.
AioAtStart(m) ==
  /\ io_method = m
  /\ io_handles = [h \in Handles |-> HandleAtStart]
  /\ my_aio = [b \in Backends |->
                 [handed_out_io |-> NULL,
                  idle_ios |-> IdleIosAtStart[b],
                  staged_ios |-> << >>,
                  lastpos |-> 0,
                  idle_bbs |-> IdleBbsAtStart[b],
                  handed_out_bb |-> NULL,
                  bb_lastpos |-> 0,
                  bb_resowner |-> {}]]
  /\ proc = [p \in Procs |-> AtRest]
  /\ refs = {}
  /\ io_log = [h \in Handles |-> [g \in 1..MaxReclaims |-> IoAtStart]]

\* ------------------------------------------------------------------------
\* The consumer of a stream
\* ------------------------------------------------------------------------

\* No second stream.
NoTwin == << >>

\* What the consumer has after a return r of streaming_read_buffer_next: the
\* call is counted and the buffer recorded, unless the process has stopped.
Returned(r) ==
  IF Halted(r.w) THEN r.w
  ELSE [r.w EXCEPT !.calls = @ + 1,
                   !.result = r.buffer,
                   !.eos_at = IF r.buffer = InvalidBuffer /\ @ = -1
                              THEN Len(r.w.returned) ELSE @,
                   !.returned = IF r.buffer # InvalidBuffer
                                THEN Append(@, r.buffer) ELSE @,
                   !.ret_slots = IF r.buffer # InvalidBuffer
                                 THEN Append(@, r.slot) ELSE @]

StreamInit ==
  /\ \E flags \in SUBSET {"SEQUENTIAL", "FULL"},
     io_concurrency \in IoConcurrencySettings,
     pin_limit \in PinLimits,
     io_size \in BufferIoSizes,
     advice_supported \in BOOLEAN,
     per_buffer_data_size \in 0..1,
     assert_enabled \in BOOLEAN :
    stream = streaming_read_buffer_begin(flags, io_concurrency, pin_limit,
                                         io_size, advice_supported,
                                         per_buffer_data_size, assert_enabled)
  /\ twin = NoTwin
  /\ AioAtStart("sync")

\* The consumer calls streaming_read_buffer_next, with a per_buffer_data
\* pointer exactly when the stream was begun with per-buffer data.
Next_ ==
  /\ stream.ended = "no"
  /\ ~Halted(stream)
  /\ stream.calls < MaxCalls + 1 + MaxExtraNext
  /\ \E r \in streaming_read_buffer_next(stream, stream.per_buffer_data_size > 0) :
       stream' = Returned(r)
  /\ UNCHANGED << twin, aio_vars >>

\* The consumer calls streaming_read_buffer_end.
End ==
  /\ stream.ended = "no"
  /\ ~Halted(stream)
  /\ \E x \in streaming_read_buffer_end(stream) :
       stream' = IF Halted(x) THEN [x EXCEPT !.ended = "aborted"] ELSE x
  /\ UNCHANGED << twin, aio_vars >>

StreamNext == Next_ \/ End

StreamSpec == StreamInit /\ [][StreamNext]_vars

\* ------------------------------------------------------------------------
\* The processes working on the AIO handles
\* ------------------------------------------------------------------------

AioInit ==
  /\ stream = streaming_read_buffer_begin({}, 0, 1, 1, FALSE, 0, FALSE)
  /\ twin = NoTwin
  /\ \E m \in IoMethods : AioAtStart(m)

\* A step of process p inside the function it is executing.
Continue(p) ==
  \/ pgaio_io_reclaim(p)
  \/ pgaio_io_reclaim_idle(p)
  \/ pgaio_io_prepare_staged(p)
  \/ pgaio_io_prepare_submit(p)
  \/ pgaio_io_perform_synchronously(p)
  \/ pgaio_io_process_completion_subject(p)
  \/ pgaio_io_process_completion(p)
  \/ pgaio_io_ref_wait_owner(p)
  \/ pgaio_io_ref_wait_submit(p)
  \/ pgaio_io_was_recycled_state(p)
  \/ pgaio_io_ref_wait_loop(p)
  \/ pgaio_io_ref_wait_error(p)
  \/ ConditionVariablePrepareToSleep(p)
  \/ pgaio_io_ref_wait_sleep(p)
  \/ ConditionVariableSleep(p)
  \/ ConditionVariableCancelSleep(p)
  \/ pgaio_io_ref_check_done_state(p)

\* A backend at rest asks for a handle, with or without a resource owner
\* and a PgAioReturn.
Acquire(p) ==
  \E resowner \in BOOLEAN, ret \in BOOLEAN : pgaio_io_get_nb(p, resowner, ret)

\* A backend at rest calls one of the other functions of the AIO subsystem.
Use(p) ==
  \/ my_aio[p].handed_out_io # NULL /\ pgaio_io_release(p, my_aio[p].handed_out_io)
  \/ \E h \in Handles : pgaio_io_release_resowner(p, h)
  \/ \E h \in Handles : pgaio_io_get_ref(p, h)
  \/ pgaio_io_prepare(p)
  \/ pgaio_submit_staged(p)
  \/ \E ref \in refs : pgaio_io_ref_wait(p, ref)
  \/ \E ref \in refs : pgaio_io_ref_check_done(p, ref)

\* A process at rest calls into the AIO subsystem, or goes on inside it.
AioNext ==
  \/ \E p \in Backends : Acquire(p)
  \/ \E p \in Backends : Use(p)
  \/ \E w \in Workers, h \in Handles : WorkerReaps(w, h)
  \/ \E p \in Procs : Continue(p)

AioSpec == AioInit /\ [][AioNext]_vars

\* The behaviours in which at most MaxFairIos handles are acquired.
AioFairNext ==
  \/ \E p \in Backends : Acquire(p) /\ Cardinality(Acquired') <= MaxFairIos
  \/ \E p \in Backends : Use(p)
  \/ \E w \in Workers, h \in Handles : WorkerReaps(w, h)
  \/ \E p \in Procs : Continue(p)

\* The behaviours in which the issuer of an I/O registers shared callbacks
\* on the handle handed out to it, with at most MaxFairIos handles acquired.
AioCbNext ==
  \/ \E p \in Backends : Acquire(p) /\ Cardinality(Acquired') <= MaxFairIos
  \/ \E p \in Backends, cbid \in 0..3 : pgaio_io_add_shared_cb(p, cbid)
  \/ \E p \in Backends : Use(p)
  \/ \E w \in Workers, h \in Handles : WorkerReaps(w, h)
  \/ \E p \in Procs : Continue(p)

AioCbSpec == AioInit /\ [][AioCbNext]_vars

\* A backend at rest calls pgaio_io_release on a handle that is not handed
\* out to it.
Misuse(p) ==
  \E h \in Handles : h # my_aio[p].handed_out_io /\ pgaio_io_release(p, h)

\* The build has assertions or has none.
AioApiInit ==
  /\ \E assert_enabled \in BOOLEAN :
       stream = streaming_read_buffer_begin({}, 0, 1, 1, FALSE, 0, assert_enabled)
  /\ twin = NoTwin
  /\ \E m \in IoMethods : AioAtStart(m)

AioApiNext ==
  \/ AioFairNext
  \/ \E p \in Backends : Misuse(p)

\* The behaviours of either build, the calls that are errors included.
AioApiSpec == AioApiInit /\ [][AioApiNext]_vars

\* The processes are scheduled fairly, and the worker completes every I/O
\* in flight.
AioFairSpec ==
  /\ AioInit
  /\ [][AioFairNext]_vars
  /\ \A p \in Procs : WF_vars(Continue(p))
  /\ \A w \in Workers : WF_vars(\E h \in Handles : WorkerReaps(w, h))


\* A step of backend p inside pgaio_io_get.
ContinueGet(p) ==
  \/ pgaio_io_get_again(p)
  \/ pgaio_io_wait_for_free_completed(p)
  \/ pgaio_io_wait_for_free_submit(p)
  \/ pgaio_io_wait_for_free_scan(p)
  \/ pgaio_io_wait_for_free_wait(p)
  \/ pgaio_io_wait_for_free_lastpos(p)

\* The behaviours with pgaio_io_get in which at most MaxFairIos handles are
\* acquired without a wait, and at most MaxIos in all.
AioGetNext ==
  \/ \E p \in Backends : Acquire(p) /\ Cardinality(Acquired') <= MaxFairIos
  \/ \E p \in Backends, resowner \in BOOLEAN, ret \in BOOLEAN :
       pgaio_io_get(p, resowner, ret) /\ Cardinality(Acquired') <= MaxFairIos
  \/ \E p \in Backends : Use(p)
  \/ \E w \in Workers, h \in Handles : WorkerReaps(w, h)
  \/ \E p \in Procs : Continue(p)
  \/ \E p \in Backends : ContinueGet(p)

\* The processes are scheduled fairly, and the worker completes every I/O
\* in flight.
AioGetSpec ==
  /\ AioInit
  /\ [][AioGetNext]_vars
  /\ \A p \in Procs : WF_vars(Continue(p))
  /\ \A p \in Backends : WF_vars(ContinueGet(p))
  /\ \A w \in Workers : WF_vars(\E h \in Handles : WorkerReaps(w, h))

\* A backend at rest calls one of the bounce buffer functions: it asks for
\* a bounce buffer, or hands the one it was given to the handle it was
\* given, or releases it.
UseBb(p) ==
  \/ pgaio_bounce_buffer_get(p)
  \/ /\ my_aio[p].handed_out_io # NULL
     /\ my_aio[p].handed_out_bb # NULL
     /\ pgaio_io_assoc_bounce_buffer(p, my_aio[p].handed_out_io, my_aio[p].handed_out_bb)
  \/ /\ my_aio[p].handed_out_bb # NULL
     /\ pgaio_bounce_buffer_release(p, my_aio[p].handed_out_bb)

\* A step of backend p inside pgaio_bounce_buffer_get.
ContinueBb(p) ==
  \/ pgaio_bounce_buffer_get_pop(p)
  \/ pgaio_bounce_buffer_wait_for_free_submit(p)
  \/ pgaio_bounce_buffer_wait_for_free_scan(p)
  \/ pgaio_io_wait_for_free_wait(p)
  \/ pgaio_bounce_buffer_wait_for_free_check(p)

\* The behaviours with bounce buffers in which at most MaxFairIos handles
\* are acquired.
AioBbNext ==
  \/ \E p \in Backends : Acquire(p) /\ Cardinality(Acquired') <= MaxFairIos
  \/ \E p \in Backends : Use(p)
  \/ \E p \in Backends : UseBb(p)
  \/ \E w \in Workers, h \in Handles : WorkerReaps(w, h)
  \/ \E p \in Procs : Continue(p)
  \/ \E p \in Backends : ContinueBb(p)

\* The processes are scheduled fairly, and the worker completes every I/O
\* in flight.
AioBbSpec ==
  /\ AioInit
  /\ [][AioBbNext]_vars
  /\ \A p \in Procs : WF_vars(Continue(p))
  /\ \A p \in Backends : WF_vars(ContinueBb(p))
  /\ \A w \in Workers : WF_vars(\E h \in Handles : WorkerReaps(w, h))

\* ------------------------------------------------------------------------
\* Properties of the streaming reader
\* ------------------------------------------------------------------------

\* The buffers of the blocks the callback has returned, in its order.
RequestedBuffers == [i \in 1..Len(stream.cb_blocks) |-> BufferOf(stream.cb_blocks[i])]

\* The buffers next() returned up to its first InvalidBuffer.
StreamedBuffers ==
  IF stream.eos_at = -1 THEN stream.returned
  ELSE SubSeq(stream.returned, 1, stream.eos_at)

IsPrefix(s, t) == Len(s) <= Len(t) /\ \A i \in 1..Len(s) : s[i] = t[i]

\* C1: the buffers returned by streaming_read_buffer_next up to the first
\* InvalidBuffer are the buffers of the callback's blocks, in the callback's
\* order: a prefix of them while the stream is running, all of them once
\* InvalidBuffer has been returned, and the consumer is never left without
\* an answer (no failed assertion, no access outside an array).
C1_BlockOrder ==
  /\ ~Halted(stream)
  /\ IsPrefix(StreamedBuffers, RequestedBuffers)
  /\ stream.eos_at # -1 => StreamedBuffers = RequestedBuffers

\* C2: once the callback has returned InvalidBlockNumber it is not invoked
\* again, and a call of streaming_read_buffer_next made when the pinned
\* buffers have drained returns InvalidBuffer.
C2_EndOfStream ==
  [][ /\ ~stream'.cb_after_done
      /\ (stream.cb_done /\ stream.pinned_buffers = 0
          /\ stream.ended = "no" /\ stream'.ended = "no")
         => (~Halted(stream') /\ stream'.result = InvalidBuffer) ]_vars

\* C3: with per-buffer data, the slot returned with the k-th buffer is the
\* slot that was passed to the callback invocation that supplied the k-th
\* block.
C3_PerBufferData ==
  (stream.per_buffer_data_size > 0 /\ IsPrefix(stream.returned, RequestedBuffers))
    => \A k \in 1..Len(stream.returned) : stream.ret_slots[k] = stream.cb_slots[k]

\* C4: streaming_read_buffer_end reaches the release of the stream's memory,
\* with pinned_buffers = 0 and ios_in_progress = 0.
C4_EndReleases ==
  stream.ended # "no"
    => /\ stream.ended = "released"
       /\ stream.pinned_buffers = 0
       /\ stream.ios_in_progress = 0

\* ------------------------------------------------------------------------
\* Properties of the AIO handles
\* ------------------------------------------------------------------------

\* The handles of backend b that are HANDED_OUT.
HandedOut(b) ==
  { h \in Handles : owner_procno[h] = b /\ io_handles[h].state = "HANDED_OUT" }

C6_Generation ==
  [][ \A h \in Handles :
        LET g == io_handles[h].generation
        IN  /\ g # 0
            /\ io_handles'[h].generation # 0
            /\ io_handles'[h].generation =
                 IF \E p \in Procs : /\ proc[p].pc = "reclaim"
                                      /\ proc[p].ioh = h
                                      /\ proc'[p].pc = "reclaim_idle"
                 THEN g + 1 ELSE g ]_vars

\* A handle has been reclaimed twice.
C6_Witness ==
  \E h \in Handles : io_handles[h].generation = InitialGeneration + 2

\* Where a process has read the state in pgaio_io_was_recycled and is about
\* to read the generation.
VerdictPcs ==
  {"wait_generation", "loop_generation", "sleep_generation", "check_generation"}

\* C7: whenever pgaio_io_was_recycled answers "not recycled" for a reference
\* of generation g, the state it has read is not IDLE and was written while
\* the handle had generation g, whatever the interleaving with the writes of
\* pgaio_io_reclaim and a later pgaio_io_get_nb.
C7_NoStaleState ==
  \A p \in Backends :
    (proc[p].pc \in VerdictPcs /\ ~pgaio_io_was_recycled(p))
      => /\ proc[p].state # "IDLE"
         /\ proc[p].state_generation = proc[p].ref_generation

\* Between the two reads of a pgaio_io_was_recycled the handle was reclaimed
\* and acquired again.
C7_Witness ==
  \E p \in Backends :
    /\ proc[p].pc \in VerdictPcs
    /\ proc[p].state_generation = proc[p].ref_generation
    /\ io_handles[proc[p].ioh].generation > proc[p].ref_generation
    /\ io_handles[proc[p].ioh].state = "HANDED_OUT"

\* Backend p is inside a pgaio_io_ref_wait on a reference whose I/O had been
\* submitted when it called.
Waits(p) == proc[p].call = "ref_wait" /\ proc[p].submitted

\* Backend p takes the step in which its pgaio_io_ref_wait returns.
Returns(p) == proc[p].call = "ref_wait" /\ proc'[p].call = "none"

\* C8: a pgaio_io_ref_wait on a reference whose I/O has been submitted, by
\* the owner or by another backend, never fails, returns only after it has
\* seen the handle recycled or COMPLETED_SHARED or COMPLETED_LOCAL, and
\* eventually returns, when every process keeps taking steps and the worker
\* completes every I/O in flight.
C8_WaitReturns ==
  /\ [](\A p \in Backends : Waits(p) => proc[p].pc \notin {"ERROR", "PANIC"})
  /\ [][\A p \in Backends :
          (Waits(p) /\ Returns(p)) =>
            \/ proc[p].pc \in VerdictPcs /\ pgaio_io_was_recycled(p)
            \/ proc[p].state \in {"COMPLETED_SHARED", "COMPLETED_LOCAL"}]_vars
  /\ \A p \in Backends : (Waits(p) ~> ~Waits(p))

\* A waiter that went to sleep before the I/O completed has been taken off
\* the wait list by the broadcast of the completion.
C8_Witness ==
  \E p \in Backends :
    /\ Waits(p)
    /\ proc[p].pc = "sleep"
    /\ p \notin io_handles[proc[p].ioh].cv
    /\ io_handles[proc[p].ioh].generation = proc[p].ref_generation

\* The I/O of the reference p waits for was acquired with a report_return,
\* has completed, and its resource owner has not been released.
Reported(p) ==
  LET io == io_log[proc[p].ioh][proc[p].ref_generation]
  IN  io.passed /\ io.completed /\ ~io.resowner_released

\* report_return of the I/O (h, g) holds its distilled result and its
\* subject data.
Holds(log, h, g) ==
  /\ log[h][g].written
  /\ log[h][g].result = [status |-> "ARS_OK", result |-> IoResult(h, g)]
  /\ log[h][g].subject_data = SubjectData(h, g)

\* C9 as stated: when the owner's pgaio_io_ref_wait returns, for an I/O that
\* was acquired with a report_return, has completed and has kept its
\* resource owner, the handle is IDLE and in idle_ios, and report_return
\* holds the distilled result and subject data of that I/O.
C9_ReclaimedIdle ==
  [][ \A p \in Backends :
        (Returns(p) /\ owner_procno[proc[p].ioh] = p /\ Reported(p))
          => LET h == proc[p].ioh
                 g == proc[p].ref_generation
             IN  /\ io_handles'[h].state = "IDLE"
                 /\ h \in Range(my_aio'[p].idle_ios)
                 /\ Holds(io_log', h, g) ]_vars

\* C9: when the owner's pgaio_io_ref_wait returns, for an I/O that was
\* acquired with a report_return, has completed and has kept its resource
\* owner, the owner has reclaimed the handle since the reference was taken
\* and report_return holds the distilled result and subject data of that
\* I/O; the handle is IDLE and in idle_ios unless the owner has acquired it
\* again in the meantime.
C9_Reclaimed ==
  [][ \A p \in Backends :
        (Returns(p) /\ owner_procno[proc[p].ioh] = p /\ Reported(p))
          => LET h == proc[p].ioh
                 g == proc[p].ref_generation
             IN  /\ io_handles'[h].generation > g
                 /\ Holds(io_log', h, g)
                 /\ \/ /\ io_handles'[h].state = "IDLE"
                       /\ h \in Range(my_aio'[p].idle_ios)
                    \/ \E g2 \in (g + 1)..MaxReclaims : << h, g2 >> \in Acquired ]_vars

\* The owner, waiting on its reference, has found the I/O completed by
\* the worker and is reclaiming the handle; the result is in report_return.
C9_Witness ==
  \E p \in Backends :
    /\ proc[p].call = "ref_wait"
    /\ proc[p].pc = "reclaim_idle"
    /\ owner_procno[proc[p].ioh] = p
    /\ io_method = "worker"
    /\ Reported(p)
    /\ Holds(io_log, proc[p].ioh, proc[p].ref_generation)

\* C10: a step that takes a handle out of COMPLETED_SHARED or into IDLE is
\* a step of its owner working on that handle; a backend that is not the
\* owner changes nothing of a handle in pgaio_io_ref_wait and
\* pgaio_io_ref_check_done but the wait list it sleeps on, and when it finds
\* the handle COMPLETED_SHARED it returns and leaves the handle as it is.
C10_OwnerReclaims ==
  [][ /\ \A h \in Handles :
           ( \/ /\ io_handles[h].state = "COMPLETED_SHARED"
                /\ io_handles'[h].state # "COMPLETED_SHARED"
             \/ /\ io_handles[h].state # "IDLE"
                /\ io_handles'[h].state = "IDLE" )
           => /\ proc[owner_procno[h]].ioh = h
              /\ proc'[owner_procno[h]] # proc[owner_procno[h]]
      /\ \A p \in Backends :
           ( /\ proc[p].call \in {"ref_wait", "ref_check_done"}
             /\ owner_procno[proc[p].ioh] # p
             /\ proc'[p] # proc[p] )
           => /\ \A h \in Handles :
                   [io_handles'[h] EXCEPT !.cv = {}] = [io_handles[h] EXCEPT !.cv = {}]
              /\ ( /\ proc[p].pc \in {"loop_generation", "check_generation"}
                   /\ ~pgaio_io_was_recycled(p)
                   /\ proc[p].state = "COMPLETED_SHARED" )
                 => (proc'[p] = AtRest /\ io_handles' = io_handles) ]_vars

\* A backend that is not the owner has found the handle COMPLETED_SHARED
\* and not recycled.
C10_Witness ==
  \E p \in Backends :
    /\ proc[p].call \in {"ref_wait", "ref_check_done"}
    /\ owner_procno[proc[p].ioh] # p
    /\ proc[p].pc \in {"loop_generation", "check_generation"}
    /\ ~pgaio_io_was_recycled(p)
    /\ proc[p].state = "COMPLETED_SHARED"

\* The lifecycle graph: the edges along which a handle's state advances, and
\* the edges of a reclaim.
LifecycleEdges ==
  { << "IDLE", "HANDED_OUT" >>, << "HANDED_OUT", "DEFINED" >>,
    << "DEFINED", "PREPARED" >>, << "PREPARED", "IN_FLIGHT" >>,
    << "IN_FLIGHT", "REAPED" >>, << "REAPED", "COMPLETED_SHARED" >>,
    << "COMPLETED_SHARED", "COMPLETED_LOCAL" >>,
    << "HANDED_OUT", "IDLE" >>, << "COMPLETED_SHARED", "IDLE" >>,
    << "COMPLETED_LOCAL", "IDLE" >> }

\* C11: every change of a handle's state is an edge of the lifecycle graph
\* IDLE -> HANDED_OUT -> DEFINED -> PREPARED -> IN_FLIGHT -> REAPED ->
\* COMPLETED_SHARED -> COMPLETED_LOCAL or a reclaim to IDLE from HANDED_OUT,
\* COMPLETED_SHARED or COMPLETED_LOCAL, whatever the processes do.
C11_Lifecycle ==
  [][ \A h \in Handles :
        io_handles'[h].state # io_handles[h].state
          => << io_handles[h].state, io_handles'[h].state >>
               \in LifecycleEdges ]_vars

\* A handle has carried an I/O from acquisition to completion, has been
\* reclaimed and is handed out again.
C11_Witness ==
  \E h \in Handles :
    /\ io_log[h][InitialGeneration].submitted
    /\ io_log[h][InitialGeneration].completed
    /\ io_handles[h].generation = InitialGeneration + 1
    /\ io_handles[h].state = "HANDED_OUT"

\* The handles of backend b.
HandlesOf(b) == { h \in Handles : owner_procno[h] = b }

\* Backend b is inside pgaio_io_reclaim.
InReclaim(b) == proc[b].pc \in {"reclaim", "reclaim_idle"}

\* C12: whenever a backend is outside pgaio_io_get_nb and pgaio_io_reclaim,
\* its idle_ios holds exactly those of its handles whose state is IDLE; and
\* idle_ios never holds a handle twice, nor a handle of another backend.
C12_IdleList ==
  \A b \in Backends :
    LET idle == my_aio[b].idle_ios
    IN  /\ Cardinality(Range(idle)) = Len(idle)
        /\ Range(idle) \subseteq HandlesOf(b)
        /\ ~InReclaim(b)
             => \A h \in HandlesOf(b) :
                  h \in Range(idle) <=> io_handles[h].state = "IDLE"

\* A backend with two handles has used and reclaimed its first handle while
\* the second stayed idle: the first is back at the tail of idle_ios.
C12_Witness ==
  \E b \in Backends :
    /\ Len(IdleIosAtStart[b]) = 2
    /\ my_aio[b].idle_ios = << IdleIosAtStart[b][2], IdleIosAtStart[b][1] >>
    /\ io_log[IdleIosAtStart[b][1]][InitialGeneration].completed
    /\ proc[b].pc = "idle"

\* The last pgaio_io_was_recycled of p answers "not recycled" and has stored
\* COMPLETED_SHARED or COMPLETED_LOCAL in *state.
ObservedCompleted(p) ==
  /\ proc[p].pc \in VerdictPcs
  /\ ~pgaio_io_was_recycled(p)
  /\ proc[p].state \in {"COMPLETED_SHARED", "COMPLETED_LOCAL"}

\* C13: when pgaio_io_was_recycled answers "not recycled" for a reference of
\* generation g and the state it has read is COMPLETED_SHARED or
\* COMPLETED_LOCAL, the handle's distilled_result at that moment is the one
\* distilled from the system call of the I/O of generation g, never that of
\* a later I/O of the handle.
C13_ResultOfGeneration ==
  \A p \in Backends :
    ObservedCompleted(p)
      => io_handles[proc[p].ioh].distilled_result =
           [status |-> "ARS_OK",
            result |-> IoResult(proc[p].ioh, proc[p].ref_generation)]

\* The handle is carrying its second I/O, so the distilled_result of its
\* first I/O has been overwritten, and a pgaio_io_was_recycled on a
\* reference to the second I/O finds it completed.
C13_Witness ==
  \E p \in Backends :
    /\ ObservedCompleted(p)
    /\ proc[p].ref_generation = InitialGeneration + 1
    /\ io_log[proc[p].ioh][InitialGeneration].completed

\* ------------------------------------------------------------------------
\* pgaio_io_reclaim as a function of the handle it is given
\* ------------------------------------------------------------------------

\* pgaio_io_reclaim is applied at most MaxReclaimCalls times to a handle.
MaxReclaimCalls == 2

\* One handle h0 of some backend is in a state in which the callers of
\* pgaio_io_reclaim apply it: handed out, or completed by the method; with
\* or without a resource owner and a PgAioReturn.
ReclaimInit ==
  /\ stream = streaming_read_buffer_begin({}, 0, 1, 1, FALSE, 0, FALSE)
  /\ twin = NoTwin
  /\ \E m \in IoMethods, h0 \in Handles, s \in {"HANDED_OUT", "COMPLETED_SHARED"},
        g \in 1..MaxReclaims, resowner \in BOOLEAN, ret \in BOOLEAN :
       LET completed == s = "COMPLETED_SHARED"
           raw == IF completed THEN IoResult(h0, g) ELSE 0
           io == [HandleAtStart EXCEPT
                    !.state = s,
                    !.generation = g,
                    !.state_generation = g,
                    !.result = raw,
                    !.distilled_result =
                       IF completed THEN DistilledResult([HandleAtStart EXCEPT !.result = raw]) ELSE @,
                    !.scb_data = IF completed THEN SubjectData(h0, g) ELSE @,
                    !.resowner = resowner,
                    !.report_return = IF ret THEN g ELSE NULL]
       IN  /\ io_method = m
           /\ io_handles = [h \in Handles |-> IF h = h0 THEN io ELSE HandleAtStart]
           /\ my_aio = [b \in Backends |->
                          [handed_out_io |-> NULL,
                           idle_ios |-> SelectSeq(IdleIosAtStart[b], LAMBDA h : h # h0),
                           staged_ios |-> << >>,
                           lastpos |-> 0,
                           idle_bbs |-> IdleBbsAtStart[b],
                           handed_out_bb |-> NULL,
                           bb_lastpos |-> 0,
                           bb_resowner |-> {}]]
           /\ io_log = [h \in Handles |-> [g2 \in 1..MaxReclaims |->
                          IF h = h0 /\ g2 = g
                          THEN [IoAtStart EXCEPT !.acquired = TRUE,
                                                 !.passed = ret,
                                                 !.submitted = completed,
                                                 !.completed = completed]
                          ELSE IoAtStart]]
  /\ proc = [p \in Procs |-> AtRest]
  /\ refs = {}

\* The owner applies pgaio_io_reclaim(ioh) to the handle: for the first
\* time, or once more.
ReclaimCall(p, h) ==
  /\ proc[p].pc = "idle"
  /\ owner_procno[h] = p
  /\ io_handles[h].state # "IDLE" \/ io_handles[h].reclaims > 0
  /\ io_handles[h].reclaims < MaxReclaimCalls
  /\ proc' = Call(p, "reclaim", "reclaim", h, 0)
  /\ UNCHANGED << stream, twin, io_method, io_handles, my_aio, refs, io_log >>

ReclaimNext ==
  \/ \E p \in Backends, h \in Handles : ReclaimCall(p, h)
  \/ \E p \in Backends : pgaio_io_reclaim(p)
  \/ \E p \in Backends : pgaio_io_reclaim_idle(p)

ReclaimSpec == ReclaimInit /\ [][ReclaimNext]_vars

C15_SecondAcquireFails ==
  [][ \A b \in Backends, resowner \in BOOLEAN, ret \in BOOLEAN :
        (pgaio_io_get_nb(b, resowner, ret) /\ my_aio[b].handed_out_io # NULL)
          => LET h == my_aio[b].handed_out_io
             IN  /\ proc'[b].pc = "ERROR"
                 /\ io_handles[h].state = "HANDED_OUT"
                 /\ io_handles'[h] = io_handles[h]
                 /\ my_aio'[b].handed_out_io = h
                 /\ my_aio'[b].idle_ios = my_aio[b].idle_ios
                 /\ HandedOut(b) = { h } ]_vars

\* A backend that has a handed-out handle and an idle one has called
\* pgaio_io_get_nb again, and the call has failed.
C15_Witness ==
  \E b \in Backends :
    /\ proc[b].call = "get_nb"
    /\ proc[b].pc = "ERROR"
    /\ my_aio[b].handed_out_io # NULL
    /\ my_aio[b].idle_ios # << >>

\* C16: pgaio_io_release on the backend's handed-out handle, acquired with
\* a resource owner or without one, reclaims it: the call does not fail,
\* and when it returns the handle is IDLE and in idle_ios, its generation is
\* one more than that of the I/O released, handed_out_io is cleared and
\* nothing has been written through report_return.  Called on any other
\* handle it raises an error and changes the state of no handle.
C16_Release ==
  /\ [](\A b \in Backends :
          (proc[b].call = "release" /\ proc[b].pc # "ERROR")
            => /\ proc[b].pc \in {"reclaim", "reclaim_idle"}
               /\ my_aio[b].handed_out_io = NULL)
  /\ [][ \A b \in Backends :
           ( /\ proc[b].call = "release"
             /\ proc[b].pc = "reclaim_idle"
             /\ proc'[b].call = "none" )
             => LET h == proc[b].ioh
                    g == io_handles'[h].generation - 1
                IN  /\ io_handles'[h].state = "IDLE"
                    /\ h \in Range(my_aio'[b].idle_ios)
                    /\ io_handles'[h].state_generation = g + 1
                    /\ io_log'[h][g].acquired
                    /\ ~io_log'[h][g].submitted
                    /\ ~io_log'[h][g].written
                    /\ my_aio'[b].handed_out_io = NULL ]_vars
  /\ [][ \A b \in Backends, h \in Handles :
           (pgaio_io_release(b, h) /\ h # my_aio[b].handed_out_io)
             => /\ proc'[b].pc = "ERROR"
                /\ \A h2 \in Handles : io_handles'[h2].state = io_handles[h2].state ]_vars

\* C17: pgaio_io_release_resowner does not fail, and when it returns the
\* handle has no resource owner and no report_return.  A handle that was
\* HANDED_OUT or COMPLETED_LOCAL goes to pgaio_io_reclaim and is IDLE and in
\* idle_ios at the return, and handed_out_io does not point to it; a
\* handle that was IN_FLIGHT, REAPED or COMPLETED_SHARED has the state it
\* had; for a handle that was DEFINED or PREPARED the staged batch has been
\* submitted, so no I/O is staged.
C17_ReleaseResowner ==
  /\ [](\A b \in Backends :
          proc[b].call = "release_resowner"
            => proc[b].pc \in {"reclaim", "reclaim_idle"})
  /\ [][ \A b \in Backends, h \in Handles :
           /\ ( \/ /\ pgaio_io_release_resowner(b, h)
                   /\ proc'[b].call = "none"
                \/ /\ proc[b].call = "release_resowner"
                   /\ proc[b].ioh = h
                   /\ proc'[b].call = "none" )
                => /\ ~io_handles'[h].resowner
                   /\ io_handles'[h].report_return = NULL
                   /\ my_aio'[b].handed_out_io # h
           /\ pgaio_io_release_resowner(b, h)
                => LET s == io_handles[h].state
                   IN  /\ s \in {"HANDED_OUT", "COMPLETED_LOCAL"}
                            => /\ proc'[b].call = "release_resowner"
                               /\ proc'[b].ioh = h
                       /\ s \in {"IN_FLIGHT", "REAPED", "COMPLETED_SHARED"}
                            => /\ proc'[b].call = "none"
                               /\ io_handles'[h].state = s
                       /\ s \in {"DEFINED", "PREPARED"}
                            => /\ proc'[b].call = "none"
                               /\ my_aio'[b].staged_ios = << >>
                       /\ s # "IDLE"
           /\ (proc[b].call = "release_resowner" /\ proc[b].ioh = h /\ proc'[b].call = "none")
                => /\ io_handles'[h].state = "IDLE"
                   /\ h \in Range(my_aio'[b].idle_ios) ]_vars

\* A backend's resource owner has released a handle whose I/O was under
\* way, and is now releasing a handle that was handed out.
C17_Witness ==
  \E b \in Backends, h \in Handles :
    /\ proc[b].call = "release_resowner"
    /\ proc[b].pc = "reclaim_idle"
    /\ h # proc[b].ioh
    /\ io_log[h][io_handles[h].generation].resowner_released
    /\ io_log[h][io_handles[h].generation].submitted
    /\ io_handles[h].state \in {"IN_FLIGHT", "REAPED", "COMPLETED_SHARED"}


\* ------------------------------------------------------------------------
\* C18: pgaio_io_get without a free handle
\* ------------------------------------------------------------------------

\* Backend p is in a pgaio_io_get that it called with no handle handed out.
InGet(p) == proc[p].call = "get" /\ my_aio[p].handed_out_io = NULL

\* C18: a pgaio_io_get called with no handle handed out while all handles
\* of the backend are in use returns a handle, when every submitted I/O
\* completes: pgaio_io_wait_for_free never raises an error and never
\* reaches its panic "could not reclaim any handles", each pass of it ends
\* with a reclaim or with a wait for a handle that is IN_FLIGHT or REAPED or
\* finds a handle IDLE, and the call ends with a handle handed out.
C18_GetReturns ==
  /\ [](\A p \in Backends : InGet(p) => proc[p].pc \notin {"ERROR", "PANIC"})
  /\ [][ \A p \in Backends :
           (proc[p].pc = "scan_wait" /\ proc'[p].pc # "scan_wait")
             => io_handles[proc[p].ioh].state
                  \in {"IN_FLIGHT", "REAPED", "COMPLETED_SHARED", "IDLE"} ]_vars
  /\ \A p \in Backends : (InGet(p) ~> (proc[p].call = "none" /\ my_aio[p].handed_out_io # NULL))

\* A pgaio_io_get that found no idle handle has waited for a handle of its
\* backend that was in flight, has reclaimed it, and is about to take it.
C18_Witness ==
  \E p \in Backends :
    /\ InGet(p)
    /\ proc[p].pc = "get_nb"
    /\ proc[p].args.ret_pc = "lastpos"
    /\ proc[p].args.reclaimed = 0
    /\ my_aio[p].idle_ios # << >>
    /\ io_method = "worker"


\* ------------------------------------------------------------------------
\* C19: pgaio_bounce_buffer_get without a free bounce buffer
\* ------------------------------------------------------------------------

\* Backend p is in a pgaio_bounce_buffer_get that it called with no bounce
\* buffer handed out.
InBbGet(p) == proc[p].call = "bounce_buffer_get" /\ my_aio[p].handed_out_bb = NULL

\* The bounce buffers attached to the handles of backend b.
Attached(b) ==
  UNION { Range(io_handles[h].bounce_buffers) : h \in Range(Own(b)) }

\* C19: a pgaio_bounce_buffer_get called with no bounce buffer handed out
\* and idle_bbs empty, so that every bounce buffer of the backend is
\* attached to one of its handles, does not fail: it raises no error and
\* does not reach the panic "no more bbs", it waits only for handles that
\* hold bounce buffers, and it ends with a bounce buffer handed out.
C19_BbGetReturns ==
  /\ [](\A p \in Backends : InBbGet(p) => proc[p].pc \notin {"ERROR", "PANIC"})
  /\ [](\A p \in Backends :
          (InBbGet(p) /\ proc[p].pc = "scan_wait")
            => /\ owner_procno[proc[p].ioh] = p
               /\ io_handles[proc[p].ioh].bounce_buffers # << >>)
  /\ \A p \in Backends : (InBbGet(p) ~> (proc[p].call = "none" /\ my_aio[p].handed_out_bb # NULL))

\* Every bounce buffer of the backend is attached to the handle that is
\* handed out to it, and it asks for one more.
C19_AllOnHandedOut ==
  \E p \in Backends :
    /\ InBbGet(p)
    /\ proc[p].pc = "bb_scan"
    /\ my_aio[p].handed_out_io # NULL
    /\ Attached(p) = Range(IdleBbsAtStart[p])
    /\ Range(io_handles[my_aio[p].handed_out_io].bounce_buffers) = Attached(p)


\* ------------------------------------------------------------------------
\* C20: consecutive blocks and StartReadBuffers calls
\* ------------------------------------------------------------------------

\* The number of blocks pinned by the first n calls in reads.
RECURSIVE DoneBefore(_, _)
DoneBefore(reads, n) ==
  IF n = 0 THEN 0 ELSE DoneBefore(reads, n - 1) + reads[n].done

\* The positions in cb_blocks of the blocks call n pinned, when every block
\* the callback returned before them has been pinned.
Covered(w, n) ==
  (DoneBefore(w.reads, n - 1) + 1) .. DoneBefore(w.reads, n)

\* The calls have pinned the blocks the callback returned, in its order.
PinnedInOrder(w) ==
  /\ DoneBefore(w.reads, Len(w.reads)) <= Len(w.cb_blocks)
  /\ \A n \in 1..Len(w.reads) :
       \A m \in Covered(w, n) :
         w.cb_blocks[m] = w.reads[n].blocknum + (m - DoneBefore(w.reads, n - 1) - 1)

\* The callback's blocks at positions i..j are a run: consecutive block
\* numbers, with a block before it and a block or the end of the stream
\* after it that do not continue it.
IsRun(w, i, j) ==
  /\ i <= j
  /\ \A m \in i..(j - 1) : w.cb_blocks[m + 1] = w.cb_blocks[m] + 1
  /\ i = 1 \/ w.cb_blocks[i] # w.cb_blocks[i - 1] + 1
  /\ IF j = Len(w.cb_blocks)
     THEN w.cb_done
     ELSE w.cb_blocks[j + 1] # w.cb_blocks[j] + 1

\* C20 as stated: once the blocks of a run of at most buffer_io_size blocks
\* have been pinned, exactly one StartReadBuffers call covers the run (the
\* blocks pinned by the calls are disjoint, so no two calls cover it).
C20_OneCallPerRun ==
  (~Halted(stream) /\ PinnedInOrder(stream))
    => \A i, j \in 1..Len(stream.cb_blocks) :
         ( /\ IsRun(stream, i, j)
           /\ j - i + 1 <= stream.buffer_io_size
           /\ DoneBefore(stream.reads, Len(stream.reads)) >= j )
           => \E n \in 1..Len(stream.reads) : Covered(stream, n) = i..j

\* C20: a StartReadBuffers call asks for blocks that the callback returned
\* one after the other with consecutive block numbers, at least one and at
\* most buffer_io_size of them, and never for blocks that are not
\* consecutive; and when a call ends where the next one goes on with the
\* next block number, then it pinned fewer blocks than it asked for, or
\* asked for buffer_io_size blocks, or was made with the blocks pinned and
\* asked for reaching the look-ahead distance.
C20_Merge ==
  \A n \in 1..Len(stream.reads) :
    LET e == stream.reads[n]
    IN  /\ 1 <= e.done
        /\ e.done <= e.nblocks
        /\ e.nblocks <= stream.buffer_io_size
        /\ \E s \in 1..Len(stream.cb_blocks) :
             /\ s + e.nblocks - 1 <= Len(stream.cb_blocks)
             /\ \A d \in 0..(e.nblocks - 1) :
                  stream.cb_blocks[s + d] = e.blocknum + d
        /\ ( /\ n < Len(stream.reads)
             /\ stream.reads[n + 1].blocknum = e.blocknum + e.done )
             => \/ e.done < e.nblocks
                \/ e.nblocks = stream.buffer_io_size
                \/ e.pinned_buffers + e.nblocks >= e.distance

\* The callback returned a run of two blocks, with buffer_io_size 2 or more,
\* and the stream has pinned both: the first with one call because the
\* look-ahead distance was 1, the second with another.
C20_Witness ==
  /\ ~Halted(stream)
  /\ stream.buffer_io_size >= 2
  /\ stream.cb_done
  /\ Len(stream.cb_blocks) = 2
  /\ IsRun(stream, 1, 2)
  /\ Len(stream.reads) = 2
  /\ PinnedInOrder(stream)
  /\ stream.reads[1].nblocks = 1
  /\ stream.reads[1].distance = 1
  /\ stream.reads[2].blocknum = stream.reads[1].blocknum + 1


\* ------------------------------------------------------------------------
\* C21: a stream whose blocks are all cached
\* ------------------------------------------------------------------------

\* C21: in a stream begun without the FULL flag whose reads all report that
\* no wait is needed, ios_in_progress is 0, distance is 1 until the callback
\* has returned the end-of-stream sentinel or the consumer has ended the
\* stream, and next() returns the buffers of the callback's blocks in the
\* callback's order and nothing else.
C21_AllCachedStream ==
  ("FULL" \notin stream.flags /\ stream.waits_needed = 0)
    => /\ stream.ios_in_progress = 0
       /\ (~stream.cb_done /\ stream.ended = "no") => stream.distance = 1
       /\ ~Halted(stream)
       /\ IsPrefix(StreamedBuffers, RequestedBuffers)
       /\ stream.eos_at # -1 => StreamedBuffers = RequestedBuffers

\* The consumer has been given three cached blocks, the last two on the fast
\* path, and the callback has not yet returned the sentinel.
C21_Witness ==
  /\ "FULL" \notin stream.flags
  /\ stream.waits_needed = 0
  /\ ~Halted(stream)
  /\ stream.per_buffer_data_size = 0
  /\ ~stream.cb_done
  /\ Len(stream.returned) = 2
  /\ Len(stream.reads) = 3
  /\ stream.pinned_buffers = 1


\* ------------------------------------------------------------------------
\* C22: the fast path against the ring path
\* ------------------------------------------------------------------------

\* Two streams a and b have the same callback: what it returned to the one
\* is what it returned to the other, as far as both have asked.
SameCallback(a, b) ==
  /\ IsPrefix(a.cb_blocks, b.cb_blocks) \/ IsPrefix(b.cb_blocks, a.cb_blocks)
  /\ a.cb_done => Len(b.cb_blocks) <= Len(a.cb_blocks)
  /\ b.cb_done => Len(a.cb_blocks) <= Len(b.cb_blocks)
  /\ a.cb_after_done = b.cb_after_done \/ ~(a.cb_done /\ b.cb_done)

\* The buffer manager of stream w pins every block it is asked for, and
\* every block needs a wait (need_wait) or none does.
BufferManager(w, need_wait) ==
  /\ \A n \in 1..Len(w.reads) : w.reads[n].done = w.reads[n].nblocks
  /\ w.waits_needed = IF need_wait THEN Len(w.reads) ELSE 0

\* Two streams begun with the same arguments, without per-buffer data, on
\* one callback and one buffer manager, with a look-ahead distance that
\* the pin limit allows.  The consumer of twin.ring passes a
\* per_buffer_data pointer, which keeps streaming_read_buffer_next off its
\* fast path.
TwinInit ==
  /\ \E flags \in SUBSET {"SEQUENTIAL", "FULL"},
        io_concurrency \in IoConcurrencySettings,
        pin_limit \in PinLimits,
        io_size \in BufferIoSizes,
        advice_supported \in BOOLEAN,
        assert_enabled \in BOOLEAN,
        need_wait \in BOOLEAN :
       LET w == streaming_read_buffer_begin(flags, io_concurrency, pin_limit,
                                            io_size, advice_supported, 0,
                                            assert_enabled)
       IN  /\ w.distance <= w.max_pinned_buffers
           /\ stream = w
           /\ twin = [ring |-> w, need_wait |-> need_wait]
  /\ AioAtStart("sync")

\* Both consumers call streaming_read_buffer_next.
TwinNext ==
  /\ ~Halted(stream)
  /\ ~Halted(twin.ring)
  /\ stream.calls < MaxCalls + 1 + MaxExtraNext
  /\ \E r \in streaming_read_buffer_next(stream, FALSE),
        t \in streaming_read_buffer_next(twin.ring, TRUE) :
       /\ SameCallback(Returned(r), Returned(t))
       /\ BufferManager(Returned(r), twin.need_wait)
       /\ BufferManager(Returned(t), twin.need_wait)
       /\ stream' = Returned(r)
       /\ twin' = [twin EXCEPT !.ring = Returned(t)]
  /\ UNCHANGED aio_vars

TwinSpec == TwinInit /\ [][TwinNext]_vars

\* The fields of the queue of stream w agree with each other.
QueueConsistent(w) ==
  /\ w.pinned_buffers >= 0
  /\ w.ios_in_progress >= 0
  /\ w.ios_in_progress <= w.max_ios
  /\ w.next_io_index \in DOMAIN w.ios
  /\ w.oldest_buffer_index \in DOMAIN w.buffer_io_indexes
  /\ w.next_buffer_index \in DOMAIN w.buffer_io_indexes
  /\ w.ios_in_progress =
       Cardinality({ i \in DOMAIN w.buffer_io_indexes : w.buffer_io_indexes[i] >= 0 })

\* C22: the stream that takes the fast path and the same stream kept on the
\* ring path give their consumers the same buffers, the same InvalidBuffer
\* at the end and the same failures, and the fields of the queue of the
\* first agree with each other wherever those of the second do.
C22_FastPathEquivalent ==
  /\ stream.returned = twin.ring.returned
  /\ stream.result = twin.ring.result
  /\ Halted(stream) = Halted(twin.ring)
  /\ (~Halted(stream) /\ QueueConsistent(twin.ring)) => QueueConsistent(stream)

\* The first stream has served a buffer on the fast path and has seen the
\* end of the stream there; the second has returned the same buffers.
C22_Witness ==
  /\ ~Halted(stream)
  /\ stream.distance = -1
  /\ Len(stream.returned) = 2
  /\ stream.returned = twin.ring.returned


\* ------------------------------------------------------------------------
\* C23: short reads
\* ------------------------------------------------------------------------

\* C23: when StartReadBuffers pins only n of the k blocks of the pending
\* read, n buffers are pinned, the pending read becomes the remainder
\* (blocknum + n, k - n) and stays so until it is started, and the next
\* StartReadBuffers call begins with the remainder: no other block is read
\* before it, and no new pending read takes its place.
C23_ShortRead ==
  ~Halted(stream) =>
    /\ Len(stream.pinned) = DoneBefore(stream.reads, Len(stream.reads))
    /\ \A n \in 1..Len(stream.reads) :
         stream.reads[n].done < stream.reads[n].nblocks =>
           LET e == stream.reads[n]
           IN  IF n < Len(stream.reads)
               THEN /\ stream.reads[n + 1].blocknum = e.blocknum + e.done
                    /\ stream.reads[n + 1].nblocks >= e.nblocks - e.done
               ELSE /\ stream.pending_read_blocknum = e.blocknum + e.done
                    /\ stream.pending_read_nblocks >= e.nblocks - e.done

\* The last StartReadBuffers call was short, and the pending read is its
\* remainder.
C23_Witness ==
  /\ ~Halted(stream)
  /\ Len(stream.reads) > 0
  /\ stream.reads[Len(stream.reads)].done < stream.reads[Len(stream.reads)].nblocks
  /\ stream.pending_read_nblocks > 0
  /\ stream.pending_read_blocknum =
       stream.reads[Len(stream.reads)].blocknum + stream.reads[Len(stream.reads)].done


\* ------------------------------------------------------------------------
\* C24: the unget slot
\* ------------------------------------------------------------------------

RampedDistance(w, io, D) ==
  IF io = "advice"
  THEN Min(2 * D, w.max_pinned_buffers)
  ELSE IF D > w.buffer_io_size
  THEN D - 1
  ELSE Min(Min(2 * D, w.buffer_io_size), w.max_pinned_buffers)

\* C25: when a buffer is returned whose slot recorded an I/O in progress,
\* the distance D becomes min(2D, D_max) if the I/O was issued with advice,
\* and D - 1 when D > D_io, min(min(2D, D_io), D_max) otherwise, if it was
\* issued without; when the slot recorded no I/O, returning the buffer
\* leaves D as it is.
C25_DistanceOnReturn ==
  (~Halted(stream) /\ stream.served.io # "") =>
    stream.served.after =
      IF stream.served.io \in {"advice", "no advice"}
      THEN RampedDistance(stream, stream.served.io, stream.served.before)
      ELSE stream.served.before

\* C25 as claimed: a buffer whose slot recorded no I/O also changes D when
\* it is returned, to D - 1 when D > 1.
C25_DecayOnReturn ==
  (~Halted(stream) /\ stream.served.io # "") =>
    stream.served.after =
      IF stream.served.io \in {"advice", "no advice"}
      THEN RampedDistance(stream, stream.served.io, stream.served.before)
      ELSE IF stream.served.before > 1
      THEN stream.served.before - 1
      ELSE stream.served.before

\* A buffer whose slot recorded no I/O was returned while the distance was
\* above 1, and an I/O has been waited for before.
C25_Witness ==
  /\ ~Halted(stream)
  /\ stream.served.io = "none"
  /\ stream.served.before > 1
  /\ stream.waits_done > 0


\* ------------------------------------------------------------------------
\* C26: starting a read that needs no wait
\* ------------------------------------------------------------------------

\* C26: a streaming_read_start_pending_read call whose StartReadBuffers
\* reports need_wait = false decreases distance by exactly one when it is
\* above 1 and leaves it unchanged otherwise, and leaves ios_in_progress,
\* next_io_index and buffer_io_indexes unchanged.
C26_StartCached ==
  \A n \in 1..Len(stream.reads) :
    (~stream.reads[n].fast /\ ~stream.reads[n].need_wait) =>
      LET e == stream.reads[n]
      IN  /\ e.after.distance =
               IF e.before.distance > 1
               THEN e.before.distance - 1 ELSE e.before.distance
          /\ e.after.ios_in_progress = e.before.ios_in_progress
          /\ e.after.next_io_index = e.before.next_io_index
          /\ e.after.buffer_io_indexes = e.before.buffer_io_indexes

\* A read that needed no wait was started while an I/O was in progress and
\* the distance was above 1, and another at distance 1.
C26_Witness ==
  /\ ~Halted(stream)
  /\ \E n \in 1..Len(stream.reads) :
       /\ ~stream.reads[n].fast
       /\ ~stream.reads[n].need_wait
       /\ stream.reads[n].before.distance > 1
       /\ stream.reads[n].before.ios_in_progress > 0
  /\ \E n \in 1..Len(stream.reads) :
       /\ ~stream.reads[n].fast
       /\ ~stream.reads[n].need_wait
       /\ stream.reads[n].before.distance = 1


\* ------------------------------------------------------------------------
\* C27: when advice is issued
\* ------------------------------------------------------------------------

\* Call n of reads carried the ISSUE_ADVICE flag.
Advised(w, n) == w.reads[n].flags = READ_BUFFERS_ISSUE_ADVICE

\* C27: every read the stream starts, through
\* streaming_read_start_pending_read or through the fast path, carries
\* ISSUE_ADVICE if and only if advice is enabled for the stream and the
\* read's first block number differs from seq_blocknum.
C27_AdviceGating ==
  \A n \in 1..Len(stream.reads) :
    Advised(stream, n) <=>
      /\ stream.advice_enabled
      /\ stream.reads[n].blocknum # stream.reads[n].seq_blocknum

\* The fast path has started a read of the block that follows the range
\* started last, and the read carried ISSUE_ADVICE.
C27_Witness ==
  /\ ~Halted(stream)
  /\ \E n \in 1..Len(stream.reads) :
       /\ stream.reads[n].fast
       /\ Advised(stream, n)
       /\ stream.reads[n].blocknum = stream.reads[n].seq_blocknum
       /\ n > 1
       /\ stream.reads[n].blocknum =
            stream.reads[n - 1].blocknum + stream.reads[n - 1].done


\* ------------------------------------------------------------------------
\* C28: the first read of a stream
\* ------------------------------------------------------------------------

\* C28: the first read a stream starts is issued without ISSUE_ADVICE,
\* whatever its block number and whether or not advice is enabled.
C28_FirstReadUnadvised ==
  Len(stream.reads) > 0 => ~Advised(stream, 1)

\* The first read of a stream with advice enabled was for a block other
\* than block 0, and it carried ISSUE_ADVICE.
C28_Witness ==
  /\ ~Halted(stream)
  /\ Len(stream.reads) > 0
  /\ stream.advice_enabled
  /\ stream.reads[1].blocknum # 0
  /\ stream.reads[1].seq_blocknum = 0
  /\ Advised(stream, 1)


\* ------------------------------------------------------------------------
\* C29: the I/Os in progress
\* ------------------------------------------------------------------------

\* The slots whose buffer_io_indexes entry names an operation.
IoSlots(w) ==
  { i \in DOMAIN w.buffer_io_indexes : w.buffer_io_indexes[i] # -1 }

\* C29: ios_in_progress is the number of read operations started with
\* need_wait = true and not yet waited for, it is between 0 and max_ios,
\* and each of these operations is named by the buffer_io_indexes entry of
\* exactly one pinned slot, the slot of its first buffer, while every other
\* entry is -1.
C29_IosInProgress ==
  ~Halted(stream) =>
    /\ stream.ios_in_progress = stream.waits_needed - stream.waits_done
    /\ stream.ios_in_progress >= 0
    /\ stream.ios_in_progress <= stream.max_ios
    /\ Cardinality(IoSlots(stream)) = stream.ios_in_progress
    /\ \A i \in IoSlots(stream) :
         /\ i \in 0..(stream.max_pinned_buffers - 1)
         /\ ((i - stream.oldest_buffer_index) % stream.max_pinned_buffers)
              < stream.pinned_buffers
         /\ stream.buffer_io_indexes[i] \in DOMAIN stream.ios
         /\ stream.ios[stream.buffer_io_indexes[i]].started
         /\ stream.ios[stream.buffer_io_indexes[i]].buffers = i
    /\ \A i, j \in IoSlots(stream) :
         stream.buffer_io_indexes[i] = stream.buffer_io_indexes[j] => i = j

\* Two I/Os are in progress on two pinned slots, and one has been waited
\* for before.
C29_Witness ==
  /\ ~Halted(stream)
  /\ stream.ended = "no"
  /\ stream.ios_in_progress = 2
  /\ Cardinality(IoSlots(stream)) = 2
  /\ stream.waits_done > 0


\* ------------------------------------------------------------------------
\* C30: the queue indexes and the pin count
\* ------------------------------------------------------------------------

\* The queue indexes of q agree with its pin count: q is the stream, or a
\* call of reads with the values the stream had when
\* streaming_read_start_pending_read was entered.
RingAgrees(q) ==
  /\ q.pinned_buffers = 0 <=> q.oldest_buffer_index = q.next_buffer_index
  /\ q.pinned_buffers # 0 =>
       q.pinned_buffers =
         (q.next_buffer_index - q.oldest_buffer_index) % q.max_pinned_buffers

\* C30: at every entry to streaming_read_buffer_next and to
\* streaming_read_start_pending_read, pinned_buffers is 0 exactly when
\* oldest_buffer_index = next_buffer_index and is otherwise
\* (next_buffer_index - oldest_buffer_index) mod max_pinned_buffers; a read
\* adds the blocks it pinned to pinned_buffers and a returned buffer takes
\* one off.
C30_RingAgrees ==
  (~Halted(stream) /\ stream.ended = "no") =>
    /\ RingAgrees(stream)
    /\ \A n \in 1..Len(stream.reads) :
         ~stream.reads[n].fast => RingAgrees(stream.reads[n])
    /\ stream.pinned_buffers =
         DoneBefore(stream.reads, Len(stream.reads)) - Len(stream.returned)

\* The queue is full when streaming_read_buffer_next is entered:
\* pinned_buffers is max_pinned_buffers, above 1, and the two indexes are
\* equal.
C30_Witness ==
  /\ ~Halted(stream)
  /\ stream.ended = "no"
  /\ stream.max_pinned_buffers > 1
  /\ stream.pinned_buffers = stream.max_pinned_buffers
  /\ stream.oldest_buffer_index = stream.next_buffer_index
  /\ "FULL" \notin stream.flags


\* ------------------------------------------------------------------------
\* C31: the pin limit
\* ------------------------------------------------------------------------

\* C31: at every call of streaming_read_start_pending_read the pending read
\* has at least 1 and at most buffer_io_size blocks and, with the buffers
\* already pinned, does not exceed max_pinned_buffers, whatever the flags,
\* max_ios and the max_pinned_buffers the pin limiter left; so the stream
\* never holds more than max_pinned_buffers pins.
C31_PinLimit ==
  /\ stream.trap \notin { "start_pending_read: pending_read_nblocks > 0",
                          "start_pending_read: pending_read_nblocks <= buffer_io_size",
                          "start_pending_read: pin limit" }
  /\ stream.ub # "the read does not fit buffers[]"
  /\ \A n \in 1..Len(stream.reads) :
       ~stream.reads[n].fast =>
         /\ 1 <= stream.reads[n].nblocks
         /\ stream.reads[n].nblocks <= stream.buffer_io_size
         /\ stream.reads[n].pinned_buffers + stream.reads[n].nblocks
              <= stream.max_pinned_buffers
  /\ stream.pinned_buffers <= stream.max_pinned_buffers

\* A stream begun with STREAMING_READ_FULL whose pin limit is below
\* buffer_io_size has started a read of more blocks than
\* max_pinned_buffers.
C31_Witness ==
  /\ "FULL" \in stream.flags
  /\ stream.max_pinned_buffers < stream.buffer_io_size
  /\ \E n \in 1..Len(stream.reads) :
       /\ ~stream.reads[n].fast
       /\ stream.reads[n].pinned_buffers = 0
       /\ stream.reads[n].nblocks > stream.max_pinned_buffers


\* ------------------------------------------------------------------------
\* C40: the ios[] slots
\* ------------------------------------------------------------------------

\* C40: every read the stream starts uses an ios[] slot with an index in
\* 0..max_ios-1 that no operation started and not yet waited for holds
\* (streaming_read_start_pending_read uses ios[next_io_index], the fast path
\* ios[0]), and next_io_index stays in 0..max_ios-1.
C40_IoSlots ==
  /\ stream.next_io_index \in 0..(stream.max_ios - 1)
  /\ stream.ub \notin { "ios[next_io_index] is outside ios[]",
                        "ios[io_index] is outside ios[]" }
  /\ \A n \in 1..Len(stream.reads) :
       LET e == stream.reads[n]
           io_index == IF e.fast THEN 0 ELSE e.before.next_io_index
       IN  /\ io_index \in 0..(stream.max_ios - 1)
           /\ \A i \in DOMAIN e.before.buffer_io_indexes :
                e.before.buffer_io_indexes[i] # io_index

\* With max_ios = 1 the fast path has started a read that needs a wait and
\* has left next_io_index at 1.
C40_Witness ==
  /\ ~Halted(stream)
  /\ stream.max_ios = 1
  /\ stream.next_io_index = 1
  /\ stream.ios_in_progress = 1
  /\ Len(stream.reads) > 0
  /\ stream.reads[Len(stream.reads)].fast
  /\ stream.reads[Len(stream.reads)].need_wait


\* ------------------------------------------------------------------------
\* C32: sleeping in pgaio_io_ref_wait
\* ------------------------------------------------------------------------

\* C32: a waiter in pgaio_io_ref_wait that has found the handle, not
\* recycled, DEFINED, PREPARED, REAPED or IN_FLIGHT arms the condition
\* variable, and having armed it and read the state again it leaves the
\* inner loop without sleeping only if the handle is recycled or the state
\* it read is none of these four; otherwise it sleeps.
C32_WaiterSleeps ==
  [][ \A p \in Backends :
        LET waitable == {"DEFINED", "PREPARED", "REAPED", "IN_FLIGHT"}
            found == ~pgaio_io_was_recycled(p) /\ proc[p].state \in waitable
        IN  /\ ( /\ proc[p].call = "ref_wait"
                 /\ proc[p].pc = "loop_generation"
                 /\ found
                 /\ proc'[p] # proc[p] )
                 => proc'[p].pc = "prepare_to_sleep"
            /\ ( /\ proc[p].call = "ref_wait"
                 /\ proc[p].pc = "sleep_generation"
                 /\ found
                 /\ proc'[p] # proc[p] )
                 => proc'[p].pc = "sleep" ]_vars

\* A waiter that is not the owner has armed the condition variable, has
\* read PREPARED from a handle that is not recycled and is PREPARED still,
\* and has left the inner loop without sleeping.
C32_Witness ==
  \E p \in Backends :
    /\ proc[p].call = "ref_wait"
    /\ proc[p].pc = "cancel_sleep"
    /\ owner_procno[proc[p].ioh] # p
    /\ proc[p].state = "PREPARED"
    /\ io_handles[proc[p].ioh].state = "PREPARED"
    /\ ~pgaio_io_was_recycled(p)


\* ------------------------------------------------------------------------
\* C33: pgaio_io_ref_check_done
\* ------------------------------------------------------------------------

\* C33: pgaio_io_ref_check_done never blocks: a backend inside it is on no
\* condition variable and its next step is always enabled.  It returns
\* true exactly when the reference is recycled or the state it read is
\* IDLE, COMPLETED_SHARED or COMPLETED_LOCAL; it goes on to reclaim the
\* handle exactly when the reference is not recycled, the state is one of
\* the two completed ones and the caller is the owner; and when it returns
\* false it has returned without changing a handle, a backend's lists, the
\* references or the record of the I/Os.
C33_CheckDone ==
  [][ \A p \in Backends :
        proc[p].call = "ref_check_done" =>
          /\ \A h \in Handles : p \notin io_handles[h].cv
          /\ proc[p].pc \in {"check_generation", "reclaim", "reclaim_idle"}
          /\ ENABLED ( \/ pgaio_io_ref_check_done_state(p)
                       \/ pgaio_io_reclaim(p)
                       \/ pgaio_io_reclaim_idle(p) )
          /\ ( proc[p].pc = "check_generation" /\ proc'[p] # proc[p] ) =>
               LET recycled == pgaio_io_was_recycled(p)
                   state == proc[p].state
                   completed == state \in {"COMPLETED_SHARED", "COMPLETED_LOCAL"}
                   result == pgaio_io_ref_check_done_result(p)
               IN  /\ result <=> (recycled \/ state = "IDLE" \/ completed)
                   /\ proc'[p].pc = "reclaim" <=>
                        (~recycled /\ completed /\ owner_procno[proc[p].ioh] = p)
                   /\ proc'[p].pc # "reclaim" => proc'[p] = AtRest
                   /\ ~result =>
                        /\ proc'[p] = AtRest
                        /\ UNCHANGED << io_handles, my_aio, refs, io_log >> ]_vars

\* A backend in pgaio_io_ref_check_done that is not the owner has read
\* COMPLETED_SHARED from a handle that is not recycled: it is about to
\* return true without reclaiming.
C33_Witness ==
  \E p \in Backends :
    /\ proc[p].call = "ref_check_done" /\ proc[p].pc = "check_generation"
    /\ ~pgaio_io_was_recycled(p)
    /\ owner_procno[proc[p].ioh] # p
    /\ proc[p].state = "COMPLETED_SHARED"


\* ------------------------------------------------------------------------
\* C34: the scan of pgaio_io_wait_for_free
\* ------------------------------------------------------------------------

\* C34: while a backend is in the round-robin scan of
\* pgaio_io_wait_for_free none of its handles is DEFINED, PREPARED or
\* COMPLETED_LOCAL, so the scan never takes the branch of the error
\* "shouldn't get here".
C34_ScanStates ==
  \A p \in Backends :
    (proc[p].call = "get" /\ proc[p].pc = "scan") =>
      \A h \in Range(Own(p)) :
        io_handles[h].state \notin {"DEFINED", "PREPARED", "COMPLETED_LOCAL"}

\* A backend is in the scan, at a handle of its own that is in flight,
\* with nothing staged, under a method that does not execute synchronously.
C34_Witness ==
  \E p \in Backends :
    /\ proc[p].call = "get"
    /\ proc[p].pc = "scan"
    /\ proc[p].args.i < my_aio[p].lastpos + io_max_concurrency(p)
    /\ io_handles[Own(p)[(proc[p].args.i % io_max_concurrency(p)) + 1]].state = "IN_FLIGHT"
    /\ my_aio[p].staged_ios = << >>
    /\ io_method = "worker"


\* ------------------------------------------------------------------------
\* C35: the staged batch
\* ------------------------------------------------------------------------

C37_SharedCallbacks ==
  [][ \A h \in Handles :
        LET io == io_handles[h]
            cbs == io.shared_callbacks
            n == Len(cbs)
            old == io_log[h][io.generation].calls
            new == io_log'[h][io.generation].calls
            made == SubSeq(new, Len(old) + 1, Len(new))
            start == [status |-> "ARS_OK", result |-> io.result]
            prepares == io.state = "DEFINED" /\ io_handles'[h].state = "PREPARED"
            completes == io_handles'[h].state = "COMPLETED_SHARED"
                           /\ io.state # "COMPLETED_SHARED"
        IN  /\ SubSeq(new, 1, Len(old)) = old
            /\ prepares =>
                 /\ \A k \in 1..Len(made) :
                      /\ made[k].phase = "prepare"
                      /\ made[k].i \in 1..n
                      /\ made[k].cbid = cbs[made[k].i]
                      /\ aio_shared_cbs_prepare(made[k].cbid)
                 /\ \A k \in 1..(Len(made) - 1) : made[k].i > made[k + 1].i
                 /\ \A i \in 1..n :
                      aio_shared_cbs_prepare(cbs[i])
                        => \E k \in 1..Len(made) : made[k].i = i
            /\ completes =>
                 /\ io.state = "REAPED"
                 /\ Len(made) = n
                 /\ \A k \in 1..n :
                      /\ made[k].phase = "complete"
                      /\ made[k].i = n + 1 - k
                      /\ made[k].cbid = cbs[n + 1 - k]
                      /\ made[k].result =
                           IF k = 1 THEN start
                           ELSE aio_shared_cbs(made[k - 1].cbid, made[k - 1].result)
                 /\ io_handles'[h].distilled_result =
                      IF n = 0 THEN start
                      ELSE aio_shared_cbs(made[n].cbid, made[n].result)
            /\ ~(prepares \/ completes) => new = old ]_vars

\* A handle with callback 1 registered before callback 2 has completed an
\* I/O whose system call failed: callback 2 was called first, with
\* {ARS_OK, result}, and callback 1 after it, and distilled_result is the
\* error callback 1 returned for the result callback 2 had returned.
C37_Witness ==
  \E h \in Handles :
    LET io == io_handles[h]
        calls == io_log[h][io.generation].calls
    IN  /\ io.state = "COMPLETED_SHARED"
        /\ io.shared_callbacks = << 1, 2 >>
        /\ io.result < 0
        /\ Len(calls) = 3
        /\ calls[1].phase = "prepare" /\ calls[1].cbid = 1
        /\ calls[2].cbid = 2
        /\ calls[2].result = [status |-> "ARS_OK", result |-> io.result]
        /\ calls[3].cbid = 1
        /\ calls[3].result = [status |-> "ARS_OK", result |-> io.result + 1]
        /\ io.distilled_result = [status |-> "ARS_ERROR", result |-> io.result + 1]


\* ------------------------------------------------------------------------
\* C38: where the bounce buffers are
\* ------------------------------------------------------------------------

\* C38: in every state each bounce buffer of a backend is in one place and
\* in one only: on the backend's idle_bbs, in its handed_out_bb, or on the
\* bounce_buffers of one of its handles; the bounce buffer with a resource
\* owner is the one handed out.  pgaio_io_assoc_bounce_buffer puts the
\* handed-out bounce buffer on the handle's list and clears its resource
\* owner, and the reclaim of a handle puts every bounce buffer of its list
\* on idle_bbs.
C38_BounceBuffers ==
  /\ [](\A b \in Backends :
          LET handed_out == IF my_aio[b].handed_out_bb = NULL
                            THEN {} ELSE {my_aio[b].handed_out_bb}
              lists == { my_aio[b].idle_bbs }
                         \cup { io_handles[h].bounce_buffers : h \in Range(Own(b)) }
          IN  /\ \A bb \in Range(IdleBbsAtStart[b]) :
                   Cardinality({ h \in Range(Own(b)) :
                                   bb \in Range(io_handles[h].bounce_buffers) })
                     + (IF bb \in Range(my_aio[b].idle_bbs) THEN 1 ELSE 0)
                     + (IF bb \in handed_out THEN 1 ELSE 0) = 1
              /\ \A list \in lists :
                   /\ Range(list) \subseteq Range(IdleBbsAtStart[b])
                   /\ Cardinality(Range(list)) = Len(list)
              /\ handed_out \subseteq Range(IdleBbsAtStart[b])
              /\ my_aio[b].bb_resowner = handed_out)
  /\ [][ \A b \in Backends : \A h \in Range(Own(b)) :
           LET on_handle == io_handles[h].bounce_buffers
           IN  /\ io_handles'[h].bounce_buffers # on_handle =>
                    \/ /\ my_aio[b].handed_out_bb # NULL
                       /\ io_handles'[h].bounce_buffers
                            = << my_aio[b].handed_out_bb >> \o on_handle
                       /\ my_aio'[b].handed_out_bb = NULL
                       /\ my_aio'[b].bb_resowner = {}
                    \/ /\ proc[b].pc = "reclaim" /\ proc[b].ioh = h
                       /\ io_handles'[h].bounce_buffers = << >>
                       /\ Range(my_aio'[b].idle_bbs)
                            = Range(my_aio[b].idle_bbs) \cup Range(on_handle)
               /\ (proc[b].pc = "reclaim" /\ proc[b].ioh = h /\ proc'[b].pc # "reclaim")
                    => io_handles'[h].bounce_buffers = << >> ]_vars

\* A backend has attached both its bounce buffers to a handle, the I/O of
\* the handle was completed and the handle reclaimed: both bounce buffers
\* are back on idle_bbs, in the order the reclaim pushed them.
C38_Witness ==
  \E b \in Backends : \E h \in Range(Own(b)) :
    /\ Len(IdleBbsAtStart[b]) = 2
    /\ my_aio[b].idle_bbs = << IdleBbsAtStart[b][1], IdleBbsAtStart[b][2] >>
    /\ my_aio[b].handed_out_bb = NULL
    /\ io_handles[h].reclaims > 0
    /\ io_log[h][1].completed
    /\ io_handles[h].bounce_buffers = << >>
    /\ proc[b].call = "bounce_buffer_get"


\* ------------------------------------------------------------------------
\* C39: COMPLETED_LOCAL
\* ------------------------------------------------------------------------

\* C39: no handle is ever COMPLETED_LOCAL and no process ever reads
\* COMPLETED_LOCAL from a handle, so no test for it succeeds; a handle
\* leaves COMPLETED_SHARED only for IDLE, and only by a reclaim of its owner.
C39_NoCompletedLocal ==
  /\ [](/\ \A h \in Handles : io_handles[h].state # "COMPLETED_LOCAL"
        /\ \A p \in Procs : proc[p].state # "COMPLETED_LOCAL")
  /\ [][ \A h \in Handles :
           ( /\ io_handles[h].state = "COMPLETED_SHARED"
             /\ io_handles'[h].state # "COMPLETED_SHARED" )
             => /\ io_handles'[h].state = "IDLE"
                /\ proc[owner_procno[h]].ioh = h
                /\ proc[owner_procno[h]].pc \in {"reclaim", "reclaim_idle"} ]_vars

\* A handle whose I/O another process completed has been reclaimed by its
\* owner, which found it COMPLETED_SHARED: it is IDLE, in its next
\* generation, and on idle_ios again.
C39_Witness ==
  \E h \in Handles :
    /\ io_method = "worker"
    /\ io_log[h][InitialGeneration].completed
    /\ io_handles[h].generation = InitialGeneration + 1
    /\ io_handles[h].state = "IDLE"
    /\ io_handles[h].reclaims = 1
    /\ h \in Range(my_aio[owner_procno[h]].idle_ios)

=============================================================================
